---- MODULE Spec2Model ----
(***************************************************************************)
(* Model of the incremental synchronisation and resumable download engine  *)
(* of auto-kemono-downloader (download_manager.py, download.py, api.py,    *)
(* scheduler.py, artist_manager.py).                                       *)
(*                                                                         *)
(* Publish timestamps are ISO-8601 strings of one format, which Python     *)
(* compares lexically; they are modelled by their rank 1..MaxTs in that    *)
(* order.  Rank 0 stands for the falsy values: a watermark that is None    *)
(* (or ''), and post.get('published', '') of a post without the key.       *)
(* A post is identified by its position in the remote listing.             *)
(***************************************************************************)
EXTENDS Integers, Sequences, FiniteSets, TLC

\* ------------------------------------------------------------------ bounds
MaxPosts == 4
MaxTs == 4
\* page length of the listing endpoint and the offset step of the walk
\* (50 in the source), scaled down so that a listing spans several pages
PageSize == 3
\* longest remote resource and longest file found at the destination, in chunks
MaxLen == 2
\* largest max_retries passed to download_file (its default is 5 in the source)
MaxRetries == 3
\* largest max_retries of a wrapped operation other than the three API calls
MaxAttempts == 3
\* largest base_delay of such an operation
MaxBase == 3
\* most clauses set in the global and the subject rule together
MaxClauses == 2
\* most files of a post downloaded within a sync pass
MaxPostFiles == 1
\* most calls of Scheduler.start
MaxStarts == 3
\* most files attached to one post
MaxFiles == 3
\* times of day a clock reading or a rule can name (24 * 60 minutes in the
\* source)
SlotsPerDay == 3
\* days of a week (7 in the source)
DaysPerWeek == 3
\* most subjects the scheduler loop walks over
MaxArtists == 2
\* last clock reading of a scheduler run
MaxClock == 10
\* publish dates are ranks 1..MaxDate of YYYY-MM-DD strings, date bounds
\* ranks 1..MaxDate + 1
MaxDate == 2

\* ------------------------------------------------------------------ constants
\* api.py: MAX_RETRIES
MAX_RETRIES == 10
\* api.py: RETRY_DELAY_BASE
RETRY_DELAY_BASE == 5

VARIABLES
  \* ---- sync pass (download_manager.py, scheduler.py, artist_manager.py)
  listing,          \* remote listing: publish timestamp of each post
  last_post_date,   \* artists.json: the subject's persisted watermark
  last_date,        \* artist_data['last_post_date'] of the pass's snapshot
  pc,               \* position of the sync pass
  offset,           \* _fetch_new_posts: offset
  new_posts,        \* _fetch_new_posts: new_posts (post positions)
  requests,         \* offsets passed to fetch_posts_page, in order
  fetch_failed,     \* a fetch_posts_page call raised during the walk
  idx,              \* _download_posts: position of the for loop
  latest_post_date, \* result['latest_post_date']
  posts_checked,    \* result['posts_checked']
  posts_downloaded, \* result['posts_downloaded']
  errors,           \* result['errors'] (post positions)
  detail_fetched,   \* posts whose fetch_post call returned
  downloaded,       \* posts handed to download_post_files, which returned
  filtered,         \* posts rejected by should_download
  files_downloaded, \* result['files_downloaded']
  files_failed,     \* result['files_failed']
  download_result   \* _download_posts: download_result of the last post

syncVars == <<listing, last_post_date, last_date, pc, offset, new_posts,
              requests, fetch_failed, idx, latest_post_date, posts_checked,
              posts_downloaded, errors, detail_fetched, downloaded, filtered,
              files_downloaded, files_failed, download_result>>

\* ---- one call of download_file (download.py)
VARIABLES
  remote,        \* bytes of the remote resource
  file_exists,   \* os.path.exists(save_path)
  file_bytes,    \* content of the file at save_path (<<>> when absent)
  given_bytes,   \* content of that file when download_file was called
  max_retries,   \* download_file: max_retries
  dpc,           \* position of the call
  attempt,       \* download_file: attempt
  resume_pos,    \* resume_pos, as passed on to _download_with_progress
  range_from,    \* offset of the Range header of the attempt's GET, -1: none
  start_bytes,   \* file content when the attempt started
  status_code,   \* response.status_code of the attempt
  body,          \* response body of the attempt
  written,       \* number of body bytes written by the attempt
  write_mode,    \* mode of open(save_path, ...) in the attempt, "" before
  head_size,     \* HEAD probe: -2 not issued, -1 failed, else content-length
  gets,          \* Range offsets of the GETs issued, in order
  sleeps,        \* arguments of time.sleep, in order
  result         \* return value of download_file

dlVars == <<remote, file_exists, file_bytes, given_bytes, max_retries, dpc,
            attempt,
            resume_pos, range_from, start_bytes, status_code, body, written,
            write_mode, head_size, gets, sleeps, result>>

\* ---- one call of a function wrapped by retry_on_error (utils.py, api.py)
VARIABLES
  r_func,      \* the wrapped function
  r_max,       \* retry_on_error: max_retries
  r_base,      \* retry_on_error: base_delay
  r_exp,       \* retry_on_error: exponential_backoff
  r_pc,        \* position of the wrapper
  r_attempt,   \* wrapper: attempt
  r_calls,     \* number of invocations of the wrapped function
  r_fails,     \* number of invocations that raised
  r_sleeps,    \* time.sleep calls in order: who slept and for how long
  r_last,      \* the exception of the last failed invocation
  r_ret,       \* value returned by the last invocation, 0: none
  r_result,    \* how the wrapper ended: "pending", "value", "None", "raised"
  r_value,     \* the value the wrapper returned, 0: none
  r_msg        \* the exception the wrapper raised

retryVars == <<r_func, r_max, r_base, r_exp, r_pc, r_attempt, r_calls,
               r_fails, r_sleeps, r_last, r_ret, r_result, r_value, r_msg>>

\* ---- one call of FilterManager.should_download (filter_manager.py)
VARIABLES
  f_post,         \* post_data
  global_filter,  \* FilterManager.global_filter
  artist_filter,  \* should_download: artist_filter
  use_global,     \* should_download: use_global
  f_pc,           \* position of the call
  f_applied,      \* rules handed to _apply_filter, in order
  f_result        \* return value of should_download, once f_pc = "done"

filterVars == <<f_post, global_filter, artist_filter, use_global, f_pc,
                f_applied, f_result>>

\* ---- one call of download_post_files (download.py)
VARIABLES
  files_to_download,  \* extract_file_urls(post_data): (name, url) pairs
  pf_pc,              \* position of the call
  pf_idx,             \* enumerate index of the for loop, from 0
  pf_calls,           \* (url, save_path) of every download_file call, in order
  pf_answers,         \* what each of these calls answered
  pf_success,         \* results['success']
  pf_failed,          \* results['failed']
  pf_total            \* results['total']

filesVars == <<files_to_download, pf_pc, pf_idx, pf_calls, pf_answers,
               pf_success, pf_failed, pf_total>>

\* ---- one call of Scheduler._calculate_next_run (scheduler.py)
VARIABLES
  rc_timer,   \* the timer dict
  rc_now,     \* what datetime.now() answers inside the call
  rc_pc,      \* position of the call
  rc_next     \* the instant returned, or ValueError

recurVars == <<rc_timer, rc_now, rc_pc, rc_next>>

\* ---- the scheduler thread and the command loop (scheduler.py, cli.py)
VARIABLES
  artists,         \* ArtistManager.artists: the timer of each subject
  clock,           \* what datetime.now() answers
  next_run_times,  \* Scheduler.next_run_times
  sched_pc,        \* position of the scheduler thread in _run_loop
  tick_now,        \* _run_loop: now
  sched_k,         \* _run_loop: position of the for loop in artists
  evaluated,       \* subjects the for loop has reached in the current tick
  sched_pass,      \* subject whose pass the scheduler thread runs, 0: none
  cli_pc,          \* position of the command loop
  cli_k,           \* _cmd_check_all: position of the for loop in artists
  cli_pass         \* subject whose pass the command loop runs, 0: none

schedVars == <<artists, clock, next_run_times, sched_pc, tick_now, sched_k,
               evaluated, sched_pass, cli_pc, cli_k, cli_pass>>

VARIABLES
  \* ---- passes of two threads for one subject (scheduler.py, cli.py,
  \* artist_manager.py)
  stored_date,      \* ArtistManager.artists: the subject's last_post_date
  p_pc,             \* position of the pass of each thread
  p_last_date,      \* artist_data['last_post_date'] of each thread's copy
  p_latest          \* result['latest_post_date'] of each thread's pass

raceVars == <<stored_date, p_pc, p_last_date, p_latest>>

VARIABLES
  \* ---- Scheduler.start and Scheduler.stop (scheduler.py)
  running,          \* Scheduler.running
  threads,          \* position of every thread created with target _run_loop
  caller_pc,        \* position of the thread that calls start and stop
  start_calls       \* number of calls of start so far

loopVars == <<running, threads, caller_pc, start_calls>>

vars == <<syncVars, dlVars, retryVars, filterVars, filesVars, recurVars,
          schedVars, raceVars, loopVars>>

\* what the actions of one part leave alone
notSync == <<dlVars, retryVars, filterVars, filesVars, recurVars, schedVars,
  raceVars, loopVars>>

notDownload ==
  <<syncVars, retryVars, filterVars, filesVars, recurVars, schedVars,
  raceVars, loopVars>>

notRetry == <<syncVars, dlVars, filterVars, filesVars, recurVars, schedVars,
  raceVars, loopVars>>

notFilter == <<syncVars, dlVars, retryVars, filesVars, recurVars, schedVars,
  raceVars, loopVars>>

notFiles == <<syncVars, dlVars, retryVars, filterVars, recurVars, schedVars,
  raceVars, loopVars>>

notRecur == <<syncVars, dlVars, retryVars, filterVars, filesVars, schedVars,
  raceVars, loopVars>>

notSched == <<syncVars, dlVars, retryVars, filterVars, filesVars, recurVars,
  raceVars, loopVars>>

notRace == <<syncVars, dlVars, retryVars, filterVars, filesVars, recurVars,
  schedVars, loopVars>>

notLoop == <<syncVars, dlVars, retryVars, filterVars, filesVars, recurVars,
  schedVars, raceVars>>

\* ------------------------------------------------------------------ helpers
TS == 0..MaxTs

Min(a, b) == IF a < b THEN a ELSE b

Max(a, b) == IF a > b THEN a ELSE b

RECURSIVE SeqMax(_)
SeqMax(s) == IF s = <<>> THEN 0 ELSE Max(Head(s), SeqMax(Tail(s)))

Range(s) == {s[k] : k \in 1..Len(s)}

\* Python truthiness of a timestamp string or None
Truthy(d) == d # 0

Listings == UNION {[1..n -> TS] : n \in 0..MaxPosts}

\* the listing endpoint answers newest first
SortedNewestFirst(l) == \A a, b \in 1..Len(l) : a < b => l[a] >= l[b]

\* fetch_posts_page: the posts at listing positions offset+1 .. offset+PageSize
Page(off) ==
  [k \in 1..(Min(Len(listing), off + PageSize) - Min(Len(listing), off)) |-> off + k]

\* post.get('published', '')
Published(p) == listing[p]

\* download_manager.py:97 -- mutant: strict comparison
StopsAtStrict(post_date, last) == Truthy(last) /\ post_date < last

StopsAt(post_date, last) == Truthy(last) /\ post_date <= last

\* download_manager.py:103 -- mutant: the bootstrap break is lost
FirstPageOnlyNever(last) == FALSE

FirstPageOnly(last) == ~Truthy(last)

\* download_manager.py:125 -- mutant: the result starts without a watermark
InitialLatestNone(last) == 0

InitialLatest(last) == last

\* download_manager.py:174-175 -- mutant: unconditional assignment
UpdateLatestAlways(latest, post_date) == post_date

UpdateLatest(latest, post_date) ==
  IF ~Truthy(latest) \/ post_date > latest THEN post_date ELSE latest

\* download_manager.py:106 -- mutant: the offset moves on by one post
NextOffsetByOne(off) == off + 1

\* _fetch_new_posts: offset += 50
NextOffset(off) == off + PageSize

\* positions of a page at which the for loop of _fetch_new_posts returns
StopPositions(page, last) ==
  {k \in 1..Len(page) : StopsAt(Published(page[k]), last)}

FirstStop(page, last) ==
  CHOOSE k \in StopPositions(page, last) :
    \A j \in StopPositions(page, last) : k <= j

\* ------------------------------------------------------------------ filter
\* A string is a sequence of characters.  A rule (a filter dict) is a record
\* whose field keys is the set of keys the dict holds; a field whose key is
\* not held carries the default that filter_config.get would answer.
FilterKeys == {"keywords", "exclude_keywords", "date_after", "date_before",
               "require_files", "require_images", "require_videos",
               "require_attachments"}

SketchWIP == <<"S", "k", "e", "t", "c", "h", " ", "W", "I", "P">>

Titles == {<<>>, SketchWIP, <<"W", "I", "P">>}

Keywords == {<<"w", "i", "p">>, <<"S", "K">>}

\* the keyword lists of a rule: none, one listed keyword, both
KeywordLists ==
  {<<>>} \cup {<<kw>> : kw \in Keywords}
         \cup {<<a, b>> : <<a, b>> \in {p \in Keywords \X Keywords : p[1] # p[2]}}

\* the date bounds a rule can set; 0 stands for None, what get answers for a
\* key the rule does not hold
DateBounds == 1..(MaxDate + 1)

\* post['published']: date 0 for a missing or empty value, else the rank of
\* the date before the 'T' and the time after it
Publisheds ==
  {[date |-> 0, time |-> 0]} \cup {[date |-> d, time |-> 1] : d \in 1..MaxDate}

\* lengths of the previews, videos and attachments lists of post_data
Medias ==
  {m \in [previews : 0..1, videos : 0..1, attachments : 0..1] :
     m.previews + m.videos + m.attachments <= 1}

Posts == [title : Titles, published : Publisheds, media : Medias]

RulesWith(K) ==
  [keys : {K},
   keywords : IF "keywords" \in K THEN KeywordLists ELSE {<<>>},
   exclude_keywords : IF "exclude_keywords" \in K THEN KeywordLists ELSE {<<>>},
   date_after : IF "date_after" \in K THEN DateBounds ELSE {0},
   date_before : IF "date_before" \in K THEN DateBounds ELSE {0},
   require_files : IF "require_files" \in K THEN {TRUE} ELSE {FALSE},
   require_images : IF "require_images" \in K THEN {TRUE} ELSE {FALSE},
   require_videos : IF "require_videos" \in K THEN {TRUE} ELSE {FALSE},
   require_attachments :
     IF "require_attachments" \in K THEN {TRUE} ELSE {FALSE}]

\* the rules holding at most n keys; the rule without keys is {} (or None)
Rules(n) ==
  UNION {RulesWith(K) : K \in {S \in SUBSET FilterKeys : Cardinality(S) <= n}}

NoRule == CHOOSE c \in Rules(0) : TRUE

\* Python truthiness of a dict
NonEmptyDict(c) == c.keys # {}

\* str.lower on one character
Lower(ch) ==
  CASE ch = "S" -> "s"
    [] ch = "K" -> "k"
    [] ch = "W" -> "w"
    [] ch = "I" -> "i"
    [] ch = "P" -> "p"
    [] OTHER -> ch

\* filter_manager.py:68 -- mutant: the keyword is compared as written
LowerSeqNot(str) == str

\* str.lower
LowerSeq(str) == [k \in 1..Len(str) |-> Lower(str[k])]

\* Python: sub in str
Contains(str, sub) ==
  \E k \in 1..(Len(str) - Len(sub) + 1) :
    SubSeq(str, k, k + Len(sub) - 1) = sub

\* FilterManager._check_keywords
CheckKeywords(post, keywords) ==
  \E k \in 1..Len(keywords) :
    Contains(LowerSeq(post.title), LowerSeq(keywords[k]))

\* FilterManager._check_exclude_keywords
CheckExcludeKeywords(post, keywords) ==
  \E k \in 1..Len(keywords) :
    Contains(LowerSeq(post.title), LowerSeq(keywords[k]))

\* published.split('T')[0]
DatePortion(published) == published.date

\* filter_manager.py:85 -- mutant: a post dated on the bound is let through
BeforeOrOnStrict(post_date, date_after) ==
  Truthy(date_after) /\ post_date < date_after

\* _check_date_range: the post is not after date_after
BeforeOrOn(post_date, date_after) ==
  Truthy(date_after) /\ post_date <= date_after

\* _check_date_range: the post is not before date_before
AfterOrOn(post_date, date_before) ==
  Truthy(date_before) /\ post_date >= date_before

\* FilterManager._check_date_range
CheckDateRange(post, date_after, date_before) ==
  IF ~Truthy(post.published.date) THEN TRUE
  ELSE IF BeforeOrOn(DatePortion(post.published), date_after) THEN FALSE
  ELSE IF AfterOrOn(DatePortion(post.published), date_before) THEN FALSE
  ELSE TRUE

HasAttachments(post) == post.media.attachments > 0

HasVideos(post) == post.media.videos > 0

HasImages(post) == post.media.previews > 0

HasAnyFiles(post) == HasAttachments(post) \/ HasVideos(post) \/ HasImages(post)

\* FilterManager._apply_filter
ApplyFilter(post, c) ==
  IF c.keywords # <<>> /\ ~CheckKeywords(post, c.keywords) THEN FALSE
  ELSE IF c.exclude_keywords # <<>>
          /\ CheckExcludeKeywords(post, c.exclude_keywords) THEN FALSE
  ELSE IF ~CheckDateRange(post, c.date_after, c.date_before) THEN FALSE
  ELSE IF c.require_files /\ ~HasAnyFiles(post) THEN FALSE
  ELSE IF c.require_images /\ ~HasImages(post) THEN FALSE
  ELSE IF c.require_videos /\ ~HasVideos(post) THEN FALSE
  ELSE IF c.require_attachments /\ ~HasAttachments(post) THEN FALSE
  ELSE TRUE

\* filter_manager.py:21 -- mutant: the global rule is applied although disabled
GlobalAppliesAlways(use, c) == NonEmptyDict(c)

\* should_download: the global rule is applied
GlobalApplies(use, c) == use /\ NonEmptyDict(c)

\* the filter variables while no filter call is modelled
FilterIdle ==
  /\ f_post = [title |-> <<>>, published |-> [date |-> 0, time |-> 0],
               media |-> [previews |-> 0, videos |-> 0, attachments |-> 0]]
  /\ global_filter = NoRule
  /\ artist_filter = NoRule
  /\ use_global = FALSE
  /\ f_pc = "off"
  /\ f_applied = <<>>
  /\ f_result = FALSE

\* ------------------------------------------------------------------ post files
FileNames == {"", "a.png", "a.zip"}

FileUrls == {"u1.zip", "u2.png"}

FileLists ==
  UNION {[1..n -> [name : FileNames, url : FileUrls]] : n \in 0..MaxFiles}

\* os.path.splitext(urlparse(url).path)[1]
UrlExt(url) == IF url = "u1.zip" THEN ".zip" ELSE ".png"

\* download_post_files: a file without a name is called "file" plus the
\* extension of its url
NameOrDefault(name, url) ==
  IF name # "" THEN name
  ELSE IF UrlExt(url) = ".zip" THEN "file.zip" ELSE "file.png"

\* os.path.splitext(name)
SplitExt(name) ==
  CASE name = "a.png" -> [base |-> "a", ext |-> ".png"]
    [] name = "a.zip" -> [base |-> "a", ext |-> ".zip"]
    [] name = "file.png" -> [base |-> "file", ext |-> ".png"]
    [] name = "file.zip" -> [base |-> "file", ext |-> ".zip"]

\* the default of image_extensions, as far as the names here go
ImageExtensions == {".png"}

\* format_file_name with the default rename_images_only: the name of a file
\* that is no image is kept
KeepsOriginalName(name) == SplitExt(name).ext \notin ImageExtensions

\* format_file_name with the default file_name_format '{idx}'
FormatFileName(name, i) ==
  IF KeepsOriginalName(name) THEN SplitExt(name)
  ELSE [base |-> ToString(i), ext |-> SplitExt(name).ext]

\* download_post_files: save_path, the formatted name inside save_dir
SavePath(name, url, i) == FormatFileName(NameOrDefault(name, url), i)

\* what download_file answers: it catches every Exception itself
\* (download.py:94-120) and answers None when max_retries is 0
DownloadResults == {"True", "False", "None"}

\* Python truthiness of the answer of download_file
Succeeded(res) == res = "True"

\* the answers of the download_file calls of one download_post_files call
AnswerLists == UNION {[1..n -> DownloadResults] : n \in 0..MaxPostFiles}

\* download.py:169-172 -- mutant: an answer of None is counted nowhere
FilesResultDroppingNone(answers) ==
  [total |-> Len(answers),
   success |-> Cardinality({k \in 1..Len(answers) : Succeeded(answers[k])}),
   failed |-> Cardinality({k \in 1..Len(answers) : answers[k] = "False"})]

\* what download_post_files returns after these answers: total is the
\* number of files, success counts the truthy answers, and failed stands for
\* the length of the failed list, which gets every other file
FilesResult(answers) ==
  [total |-> Len(answers),
   success |-> Cardinality({k \in 1..Len(answers) : Succeeded(answers[k])}),
   failed |-> Cardinality({k \in 1..Len(answers) : ~Succeeded(answers[k])})]

\* the result of a post without files
NoResult == FilesResult(<<>>)

\* download.py:169-172 -- mutant: a failed file ends the loop
NextFileStopAtFailure(i, res, n) == IF Succeeded(res) THEN i + 1 ELSE n

\* download_post_files: the for loop goes on whatever download_file answered
NextFile(i, res, n) == i + 1

\* the file variables while no download_post_files call is modelled
FilesIdle ==
  /\ files_to_download = <<>>
  /\ pf_pc = "off"
  /\ pf_idx = 0
  /\ pf_calls = <<>>
  /\ pf_answers = <<>>
  /\ pf_success = 0
  /\ pf_failed = <<>>
  /\ pf_total = 0

\* ------------------------------------------------------------------ recurrence
\* An instant is a count of time-of-day slots since the first slot of year 0.
\* The calendar is scaled: a year of two months, a long one and a short one,
\* so that a day of month can be missing from a month as the 31st is.
MonthLens == <<3, 2>>

MonthsPerYear == Len(MonthLens)

\* the largest day of month a rule can name (31 in the source)
MaxDay == SeqMax(MonthLens)

\* days of the year before month m
RECURSIVE DaysBefore(_)
DaysBefore(m) == IF m = 1 THEN 0 ELSE DaysBefore(m - 1) + MonthLens[m - 1]

DaysPerYear == DaysBefore(MonthsPerYear) + MonthLens[MonthsPerYear]

\* the fields of a datetime
DayIndex(t) == t \div SlotsPerDay

SlotOf(t) == t % SlotsPerDay

YearOf(t) == DayIndex(t) \div DaysPerYear

MonthOf(t) ==
  CHOOSE m \in 1..MonthsPerYear :
    /\ DaysBefore(m) <= DayIndex(t) % DaysPerYear
    /\ DayIndex(t) % DaysPerYear < DaysBefore(m) + MonthLens[m]

DayOf(t) == (DayIndex(t) % DaysPerYear) - DaysBefore(MonthOf(t)) + 1

\* datetime.weekday
Weekday(t) == DayIndex(t) % DaysPerWeek

\* the datetime with these fields, second and microsecond 0
Compose(y, m, d, slot) ==
  (y * DaysPerYear + DaysBefore(m) + d - 1) * SlotsPerDay + slot

\* what _calculate_next_run leaves with when datetime.replace raises
ValueError == -1

\* datetime.replace raises ValueError for a day the month does not have
Replace(y, m, d, slot) ==
  IF d \in 1..MonthLens[m] THEN Compose(y, m, d, slot) ELSE ValueError

\* timedelta(days=n)
Days(n) == n * SlotsPerDay

\* the slot of "02:00", the time of a timer without one
DefaultSlot == 1 % SlotsPerDay

\* a subject without a timer: None or {}
NoTimer == [type |-> "none", time |-> DefaultSlot, day |-> 0]

Timers ==
  [type : {"daily", "other"}, time : 0..(SlotsPerDay - 1), day : {0}]
    \cup [type : {"weekly"}, time : 0..(SlotsPerDay - 1),
          day : 0..(DaysPerWeek - 1)]
    \cup [type : {"monthly"}, time : 0..(SlotsPerDay - 1), day : 1..MaxDay]

\* scheduler.py:62 -- mutant: a run due right now is not moved to tomorrow
DailyNextStrict(now, slot) ==
  LET next_run == Compose(YearOf(now), MonthOf(now), DayOf(now), slot) IN
  IF next_run < now THEN next_run + Days(1) ELSE next_run

\* _calculate_next_run: the daily branch and the default branch
DailyNext(now, slot) ==
  LET next_run == Compose(YearOf(now), MonthOf(now), DayOf(now), slot) IN
  IF next_run <= now THEN next_run + Days(1) ELSE next_run

\* _calculate_next_run: the weekly branch
WeeklyNext(now, slot, day) ==
  LET next_run == Compose(YearOf(now), MonthOf(now), DayOf(now), slot)
      days_ahead == day - Weekday(now)
  IN IF days_ahead <= 0 \/ (days_ahead = 0 /\ next_run <= now)
     THEN next_run + Days(days_ahead + DaysPerWeek)
     ELSE next_run + Days(days_ahead)

\* _calculate_next_run: the monthly branch
MonthlyNext(now, slot, day) ==
  LET next_run == Replace(YearOf(now), MonthOf(now), day, slot) IN
  IF next_run = ValueError THEN ValueError
  ELSE IF next_run <= now
  THEN IF MonthOf(now) = MonthsPerYear
       THEN Replace(YearOf(now) + 1, 1, day, slot)
       ELSE Replace(YearOf(now), MonthOf(now) + 1, day, slot)
  ELSE next_run

\* Scheduler._calculate_next_run
CalculateNextRun(timer, now) ==
  CASE timer.type = "daily" -> DailyNext(now, timer.time)
    [] timer.type = "weekly" -> WeeklyNext(now, timer.time, timer.day)
    [] timer.type = "monthly" -> MonthlyNext(now, timer.time, timer.day)
    [] OTHER -> DailyNext(now, timer.time)

\* the recurrence variables while no call is modelled
RecurIdle ==
  /\ rc_timer = NoTimer
  /\ rc_now = 0
  /\ rc_pc = "off"
  /\ rc_next = 0

\* ------------------------------------------------------------------ scheduler
\* the timers of the subjects of a scheduler run: none, or at the default
\* time a daily rule, a monthly rule on the first and one on the last day a
\* rule can name
SchedTimers ==
  {NoTimer} \cup {t \in Timers : /\ t.time = DefaultSlot
                                 /\ t.type \in {"daily", "monthly"}
                                 /\ t.day \in {0, 1, MaxDay}}

ArtistLists == UNION {[1..n -> SchedTimers] : n \in 1..MaxArtists}

\* scheduler.py:133 -- mutant: a subject without a timer is not skipped
HasTimerOrDefault(timer) == TRUE

\* _run_loop: not (not timer)
HasTimer(timer) == timer # NoTimer

\* self.next_run_times[artist_id] = value
SetEntry(times, id, value) ==
  [i \in DOMAIN times \cup {id} |-> IF i = id THEN value ELSE times[i]]

\* lines 138-139: the subject has no entry and _calculate_next_run raises
EntryRaises(times, id, timer, now) ==
  id \notin DOMAIN times /\ CalculateNextRun(timer, now) = ValueError

\* next_run_times after lines 138-139, when the call does not raise
EntryEnsured(times, id, timer, now) ==
  IF id \in DOMAIN times THEN times
  ELSE SetEntry(times, id, CalculateNextRun(timer, now))

\* the scheduler variables while no scheduler run is modelled
SchedIdle ==
  /\ artists = <<>>
  /\ clock = 0
  /\ next_run_times = <<>>
  /\ sched_pc = "off"
  /\ tick_now = 0
  /\ sched_k = 1
  /\ evaluated = {}
  /\ sched_pass = 0
  /\ cli_pc = "off"
  /\ cli_k = 1
  /\ cli_pass = 0

\* ------------------------------------------------------------------ concurrent passes
\* the threads that call _check_and_download: the scheduler thread and the
\* main thread with the command loop
Callers == {"scheduler", "cli"}

\* what download_artist_updates reports for a copy with watermark last when
\* the newest post it downloaded was published at post_date
LatestAfter(last, post_date) == UpdateLatest(InitialLatest(last), post_date)

\* the pass variables while no concurrent passes are modelled
RaceIdle ==
  /\ stored_date = 0
  /\ p_pc = [c \in Callers |-> "off"]
  /\ p_last_date = [c \in Callers |-> 0]
  /\ p_latest = [c \in Callers |-> 0]

\* ------------------------------------------------------------------ scheduler threads
\* the threads of the run that are executing _run_loop
LiveLoops == {i \in 1..Len(threads) : threads[i] # "ended"}

\* the loop variables while no start or stop call is modelled
LoopIdle ==
  /\ running = FALSE
  /\ threads = <<>>
  /\ caller_pc = "off"
  /\ start_calls = 0

\* ------------------------------------------------------------------ retry
\* the functions api.py wraps with retry_on_error
ApiCalls == {"fetch_user_profile", "fetch_post", "fetch_posts_page"}

\* decorator arguments of the three API calls (api.py:18, 27, 37)
ApiConfig(f) ==
  IF f = "fetch_post"
  THEN [max |-> MAX_RETRIES, base |-> RETRY_DELAY_BASE, exp |-> TRUE]
  ELSE [max |-> MAX_RETRIES, base |-> 2, exp |-> FALSE]

\* values a wrapped function may return
Values == {1, 2}

\* statuses carried by a requests.HTTPError of raise_for_status
HttpStatuses == {400, 403, 404, 429, 500, 502, 503, 504}

\* utils.py:25 -- mutant: 404 is retried as well
RetryStatusWith404 == {403, 404, 429, 500, 502, 503, 504}

\* retry_on_error: default retry_status
RetryStatus == {403, 429, 500, 502, 503, 504}

NoError == [kind |-> "none", status |-> 0]

NoMessage == [text |-> "", status |-> 0, attempts |-> -1, cause |-> NoError]

\* utils.py:32 -- mutant: the wrapper sleeps before the first invocation too
SleepsBeforeAlways(a) == a >= 0

\* wrapper: a sleep precedes the invocation of attempt a
SleepsBefore(a) == a > 0

\* utils.py:33 -- mutant: the backoff flag is ignored
WaitLinear(base, a, exp) == base * a

\* wrapper: wait
Wait(base, a, exp) == IF exp THEN base ^ a ELSE base * a

\* utils.py:46 -- mutant: the status is not looked at
RetriesHttpAnyStatus(status, a, max) == a < max - 1

\* wrapper: an HTTP error is swallowed and the loop goes on
RetriesHttp(status, a, max) == status \in RetryStatus /\ a < max - 1

\* fetch_post: time.sleep(1) at the start of the function body
PreCallDelay(f) ==
  IF f = "fetch_post" THEN <<[by |-> "function", secs |-> 1]>> ELSE <<>>

\* the retry variables while no wrapped call is modelled
RetryIdle ==
  /\ r_func = "none"
  /\ r_max = 0
  /\ r_base = 0
  /\ r_exp = FALSE
  /\ r_pc = "off"
  /\ r_attempt = 0
  /\ r_calls = 0
  /\ r_fails = 0
  /\ r_sleeps = <<>>
  /\ r_last = NoError
  /\ r_ret = 0
  /\ r_result = "pending"
  /\ r_value = 0
  /\ r_msg = NoMessage

\* ------------------------------------------------------------------ download
\* a byte of file content; one byte stands for one chunk of iter_content
Byte == {1, 2}

Contents == UNION {[1..n -> Byte] : n \in 0..MaxLen}

\* body of a response that does not carry the resource
NoticeBody == <<0>>

\* download.py:34 -- mutant: the comparison is inverted
SizeMatchesInverted(expected_size, existing_size) ==
  expected_size > 0 /\ existing_size # expected_size

\* _check_existing_file: the file counts as already downloaded
SizeMatches(expected_size, existing_size) ==
  expected_size > 0 /\ existing_size = expected_size

\* download.py:100: os.path.getsize(save_path) if os.path.exists(save_path) else 0
ResumePosition == IF file_exists THEN Len(file_bytes) ELSE 0

\* download.py:74 -- mutant: the header is sent for offset 0 as well
RangeHeaderAlways(pos) == pos

\* _perform_download: headers['Range'] = 'bytes=<pos>-' when pos > 0
RangeHeader(pos) == IF pos > 0 THEN pos ELSE -1

\* requests.Response.raise_for_status raises for 4xx and 5xx only
RaisesForStatus(s) == s >= 400 /\ s < 600

\* download.py:80-81: the response is refused
StatusRejected(s) == s \notin {200, 206} /\ RaisesForStatus(s)

\* download.py:84-87 -- mutant: the offset is kept after a full-content answer
ActualResumePosKept(pos, s) == pos

\* _perform_download: resume position after the resume support check
ActualResumePos(pos, s) == IF pos > 0 /\ s = 200 THEN 0 ELSE pos

\* download.py:53 -- mutant: always append
WriteModeAppend(pos) == "ab"

\* download.py:53 -- mutant: always truncate
WriteModeTruncate(pos) == "wb"

\* _download_with_progress: write_mode
WriteMode(pos) == IF pos > 0 THEN "ab" ELSE "wb"

\* download.py:109 -- mutant: the exponent is the attempt number
WaitTimeShort(a) == 2 ^ a

\* download_file: wait_time
WaitTime(a) == 2 ^ (a + 1)

\* statuses the media endpoint may answer to a GET with Range offset r
\* (-1: no Range header); 206 only for a range it can satisfy
ServerStatuses(r) ==
  {200, 204, 300, 404, 503}
    \cup (IF r >= 0 /\ r < Len(remote) THEN {206} ELSE {})
    \cup (IF r >= Len(remote) THEN {416} ELSE {})

ServerBody(s, r) ==
  CASE s = 200 -> remote
    [] s = 206 -> SubSeq(remote, r + 1, Len(remote))
    [] s = 204 -> <<>>
    [] OTHER -> NoticeBody

\* the download variables while no download is modelled
DownloadIdle ==
  /\ remote = <<>>
  /\ file_exists = FALSE
  /\ file_bytes = <<>>
  /\ given_bytes = <<>>
  /\ max_retries = 0
  /\ dpc = "off"
  /\ attempt = 0
  /\ resume_pos = 0
  /\ range_from = -1
  /\ start_bytes = <<>>
  /\ status_code = 0
  /\ body = <<>>
  /\ written = 0
  /\ write_mode = ""
  /\ head_size = -2
  /\ gets = <<>>
  /\ sleeps = <<>>
  /\ result = "pending"

\* the sync variables while no sync pass is modelled
SyncIdle ==
  /\ listing = <<>>
  /\ last_post_date = 0
  /\ last_date = 0
  /\ pc = "off"
  /\ offset = 0
  /\ new_posts = <<>>
  /\ requests = <<>>
  /\ fetch_failed = FALSE
  /\ idx = 1
  /\ latest_post_date = 0
  /\ posts_checked = 0
  /\ posts_downloaded = 0
  /\ errors = <<>>
  /\ detail_fetched = <<>>
  /\ downloaded = <<>>
  /\ filtered = <<>>
  /\ files_downloaded = 0
  /\ files_failed = 0
  /\ download_result = NoResult

\* download_file is called for a destination that is absent or holds a file
InitDownload ==
  /\ SyncIdle
  /\ RetryIdle
  /\ FilterIdle
  /\ FilesIdle
  /\ RecurIdle
  /\ SchedIdle
  /\ RaceIdle
  /\ LoopIdle
  /\ remote \in Contents
  /\ file_exists \in BOOLEAN
  /\ file_bytes \in (IF file_exists THEN Contents ELSE {<<>>})
  /\ given_bytes = file_bytes
  /\ max_retries \in 0..MaxRetries
  /\ dpc = "check"
  /\ attempt = 0
  /\ resume_pos = 0
  /\ range_from = -1
  /\ start_bytes = <<>>
  /\ status_code = 0
  /\ body = <<>>
  /\ written = 0
  /\ write_mode = ""
  /\ head_size = -2
  /\ gets = <<>>
  /\ sleeps = <<>>
  /\ result = "pending"

\* _check_existing_file: no file at the destination, no probe
NoExistingFile ==
  /\ dpc = "check"
  /\ UNCHANGED notDownload
  /\ ~file_exists
  /\ dpc' = "loop"
  /\ UNCHANGED <<remote, given_bytes, file_exists, file_bytes, max_retries, attempt,
                 resume_pos, range_from, start_bytes, status_code, body,
                 written, write_mode, head_size, gets, sleeps, result>>

\* _check_existing_file: the HEAD probe raises, or its content-length does
\* not parse; the error is swallowed
ProbeFails ==
  /\ dpc = "check"
  /\ UNCHANGED notDownload
  /\ file_exists
  /\ head_size' = -1
  /\ dpc' = "loop"
  /\ UNCHANGED <<remote, given_bytes, file_exists, file_bytes, max_retries, attempt,
                 resume_pos, range_from, start_bytes, status_code, body,
                 written, write_mode, gets, sleeps, result>>

\* _check_existing_file: the HEAD probe answers with content-length n
\* (0 when the header is missing)
ProbeAnswers ==
  /\ dpc = "check"
  /\ UNCHANGED notDownload
  /\ file_exists
  /\ \E n \in 0..MaxLen :
       /\ head_size' = n
       /\ IF SizeMatches(n, Len(file_bytes))
          THEN result' = "True" /\ dpc' = "done"
          ELSE result' = result /\ dpc' = "loop"
  /\ UNCHANGED <<remote, given_bytes, file_exists, file_bytes, max_retries, attempt,
                 resume_pos, range_from, start_bytes, status_code, body,
                 written, write_mode, gets, sleeps>>

\* download_file: range(max_retries) is exhausted without an attempt having
\* raised last, which happens for max_retries = 0 only; the function falls
\* off its end
LoopExit ==
  /\ dpc = "loop"
  /\ UNCHANGED notDownload
  /\ attempt >= max_retries
  /\ result' = "None"
  /\ dpc' = "done"
  /\ UNCHANGED <<remote, given_bytes, file_exists, file_bytes, max_retries, attempt,
                 resume_pos, range_from, start_bytes, status_code, body,
                 written, write_mode, head_size, gets, sleeps>>

\* download_file: an attempt starts; _perform_download issues the GET
BeginAttempt ==
  /\ dpc = "loop"
  /\ UNCHANGED notDownload
  /\ attempt < max_retries
  /\ resume_pos' = ResumePosition
  /\ range_from' = RangeHeader(ResumePosition)
  /\ gets' = Append(gets, RangeHeader(ResumePosition))
  /\ start_bytes' = file_bytes
  /\ status_code' = 0
  /\ body' = <<>>
  /\ written' = 0
  /\ write_mode' = ""
  /\ dpc' = "get"
  /\ UNCHANGED <<remote, given_bytes, file_exists, file_bytes, max_retries, attempt,
                 head_size, sleeps, result>>

\* session.get raises (timeout, connection error)
GetRaises ==
  /\ dpc = "get"
  /\ UNCHANGED notDownload
  /\ dpc' = "failed"
  /\ UNCHANGED <<remote, given_bytes, file_exists, file_bytes, max_retries, attempt,
                 resume_pos, range_from, start_bytes, status_code, body,
                 written, write_mode, head_size, gets, sleeps, result>>

\* session.get returns a response
GetResponds ==
  /\ dpc = "get"
  /\ UNCHANGED notDownload
  /\ \E s \in ServerStatuses(range_from) :
       /\ status_code' = s
       /\ body' = ServerBody(s, range_from)
  /\ dpc' = "response"
  /\ UNCHANGED <<remote, given_bytes, file_exists, file_bytes, max_retries, attempt,
                 resume_pos, range_from, start_bytes, written, write_mode,
                 head_size, gets, sleeps, result>>

\* _perform_download: raise_for_status raises for the status
BadStatus ==
  /\ dpc = "response"
  /\ UNCHANGED notDownload
  /\ StatusRejected(status_code)
  /\ dpc' = "failed"
  /\ UNCHANGED <<remote, given_bytes, file_exists, file_bytes, max_retries, attempt,
                 resume_pos, range_from, start_bytes, status_code, body,
                 written, write_mode, head_size, gets, sleeps, result>>

\* _perform_download: a resume was asked and the server sent the full
\* content; safe_remove_file removes the partial file or fails silently
ResumeDowngrade ==
  /\ dpc = "response"
  /\ UNCHANGED notDownload
  /\ ~StatusRejected(status_code)
  /\ resume_pos > 0 /\ status_code = 200
  /\ \E removed \in BOOLEAN :
       IF removed /\ file_exists
       THEN file_exists' = FALSE /\ file_bytes' = <<>>
       ELSE UNCHANGED <<file_exists, file_bytes>>
  /\ resume_pos' = ActualResumePos(resume_pos, status_code)
  /\ dpc' = "open"
  /\ UNCHANGED <<remote, given_bytes, max_retries, attempt, range_from, start_bytes,
                 status_code, body, written, write_mode, head_size, gets,
                 sleeps, result>>

\* _perform_download: the resume position is kept
ResumeKept ==
  /\ dpc = "response"
  /\ UNCHANGED notDownload
  /\ ~StatusRejected(status_code)
  /\ ~(resume_pos > 0 /\ status_code = 200)
  /\ resume_pos' = ActualResumePos(resume_pos, status_code)
  /\ dpc' = "open"
  /\ UNCHANGED <<remote, given_bytes, file_exists, file_bytes, max_retries, attempt,
                 range_from, start_bytes, status_code, body, written,
                 write_mode, head_size, gets, sleeps, result>>

\* _download_with_progress: the destination is opened, for append when
\* resuming and for truncating write otherwise
OpenFile ==
  /\ dpc = "open"
  /\ UNCHANGED notDownload
  /\ write_mode' = WriteMode(resume_pos)
  /\ file_exists' = TRUE
  /\ file_bytes' = IF write_mode' = "ab" THEN file_bytes ELSE <<>>
  /\ dpc' = "stream"
  /\ UNCHANGED <<remote, given_bytes, max_retries, attempt, resume_pos, range_from,
                 start_bytes, status_code, body, written, head_size, gets,
                 sleeps, result>>

\* _download_with_progress: the content-length does not parse, or makedirs
\* or open raises
OpenError ==
  /\ dpc = "open"
  /\ UNCHANGED notDownload
  /\ dpc' = "failed"
  /\ UNCHANGED <<remote, given_bytes, file_exists, file_bytes, max_retries, attempt,
                 resume_pos, range_from, start_bytes, status_code, body,
                 written, write_mode, head_size, gets, sleeps, result>>

\* _download_with_progress: the next chunk of the body is written
WriteChunk ==
  /\ dpc = "stream"
  /\ UNCHANGED notDownload
  /\ written < Len(body)
  /\ file_bytes' = Append(file_bytes, body[written + 1])
  /\ written' = written + 1
  /\ UNCHANGED <<remote, given_bytes, file_exists, max_retries, dpc, attempt, resume_pos,
                 range_from, start_bytes, status_code, body, write_mode,
                 head_size, gets, sleeps, result>>

\* _download_with_progress: iter_content raises, the transfer is interrupted
StreamError ==
  /\ dpc = "stream"
  /\ UNCHANGED notDownload
  /\ dpc' = "failed"
  /\ UNCHANGED <<remote, given_bytes, file_exists, file_bytes, max_retries, attempt,
                 resume_pos, range_from, start_bytes, status_code, body,
                 written, write_mode, head_size, gets, sleeps, result>>

\* the body is exhausted: _perform_download returns, download_file
\* returns True
StreamEnd ==
  /\ dpc = "stream"
  /\ UNCHANGED notDownload
  /\ written = Len(body)
  /\ result' = "True"
  /\ dpc' = "done"
  /\ UNCHANGED <<remote, given_bytes, file_exists, file_bytes, max_retries, attempt,
                 resume_pos, range_from, start_bytes, status_code, body,
                 written, write_mode, head_size, gets, sleeps>>

\* download_file: the attempt raised and attempts remain: sleep, next attempt
Retry ==
  /\ dpc = "failed"
  /\ UNCHANGED notDownload
  /\ attempt < max_retries - 1
  /\ sleeps' = Append(sleeps, WaitTime(attempt))
  /\ attempt' = attempt + 1
  /\ dpc' = "loop"
  /\ UNCHANGED <<remote, given_bytes, file_exists, file_bytes, max_retries, resume_pos,
                 range_from, start_bytes, status_code, body, written,
                 write_mode, head_size, gets, result>>

\* download.py:116-120 -- mutant: the failure handler removes the partial file
GiveUpCleaning ==
  /\ dpc = "failed"
  /\ UNCHANGED notDownload
  /\ ~(attempt < max_retries - 1)
  /\ result' = "False"
  /\ file_exists' = FALSE
  /\ file_bytes' = <<>>
  /\ dpc' = "done"
  /\ UNCHANGED <<remote, given_bytes, max_retries, attempt, resume_pos,
                 range_from, start_bytes, status_code, body, written,
                 write_mode, head_size, gets, sleeps>>

\* download_file: the last attempt raised: the exception is re-raised,
\* caught by the outer handler, and False is returned
GiveUp ==
  /\ dpc = "failed"
  /\ UNCHANGED notDownload
  /\ ~(attempt < max_retries - 1)
  /\ result' = "False"
  /\ dpc' = "done"
  /\ UNCHANGED <<remote, given_bytes, file_exists, file_bytes, max_retries, attempt,
                 resume_pos, range_from, start_bytes, status_code, body,
                 written, write_mode, head_size, gets, sleeps>>

NextDownload ==
  \/ NoExistingFile
  \/ ProbeFails
  \/ ProbeAnswers
  \/ LoopExit
  \/ BeginAttempt
  \/ GetRaises
  \/ GetResponds
  \/ BadStatus
  \/ ResumeDowngrade
  \/ ResumeKept
  \/ OpenFile
  \/ OpenError
  \/ WriteChunk
  \/ StreamError
  \/ StreamEnd
  \/ Retry
  \/ GiveUp

SpecDownload == InitDownload /\ [][NextDownload]_vars

\* ------------------------------------------------------------------ sync pass
InitSync ==
  /\ listing \in Listings
  /\ SortedNewestFirst(listing)
  /\ last_post_date \in TS
  /\ last_date = 0
  /\ pc = "idle"
  /\ offset = 0
  /\ new_posts = <<>>
  /\ requests = <<>>
  /\ fetch_failed = FALSE
  /\ idx = 1
  /\ latest_post_date = 0
  /\ posts_checked = 0
  /\ posts_downloaded = 0
  /\ errors = <<>>
  /\ detail_fetched = <<>>
  /\ downloaded = <<>>
  /\ filtered = <<>>
  /\ files_downloaded = 0
  /\ files_failed = 0
  /\ download_result = NoResult
  /\ DownloadIdle
  /\ RetryIdle
  /\ FilterIdle
  /\ FilesIdle
  /\ RecurIdle
  /\ SchedIdle
  /\ RaceIdle
  /\ LoopIdle

\* Scheduler._check_and_download / download_artist_updates up to the call of
\* _fetch_new_posts: the pass works on a copy of the subject
StartPass ==
  /\ pc = "idle"
  /\ UNCHANGED notSync
  /\ last_date' = last_post_date
  /\ pc' = "fetch"
  /\ offset' = 0
  /\ new_posts' = <<>>
  /\ requests' = <<>>
  /\ fetch_failed' = FALSE
  /\ idx' = 1
  /\ latest_post_date' = 0
  /\ posts_checked' = 0
  /\ posts_downloaded' = 0
  /\ errors' = <<>>
  /\ detail_fetched' = <<>>
  /\ downloaded' = <<>>
  /\ filtered' = <<>>
  /\ files_downloaded' = 0
  /\ files_failed' = 0
  /\ download_result' = NoResult
  /\ UNCHANGED <<listing, last_post_date>>

\* one iteration of the while loop of _fetch_new_posts, the page request
\* answering
FetchPageOk ==
  /\ pc = "fetch"
  /\ UNCHANGED notSync
  /\ requests' = Append(requests, offset)
  /\ LET page == Page(offset) IN
       IF page = <<>>
       THEN /\ pc' = "fetched"
            /\ UNCHANGED <<new_posts, offset>>
       ELSE IF StopPositions(page, last_date) # {}
       THEN /\ new_posts' =
                 new_posts \o SubSeq(page, 1, FirstStop(page, last_date) - 1)
            /\ pc' = "fetched"
            /\ UNCHANGED offset
       ELSE /\ new_posts' = new_posts \o page
            /\ IF FirstPageOnly(last_date)
               THEN pc' = "fetched" /\ UNCHANGED offset
               ELSE pc' = "fetch" /\ offset' = NextOffset(offset)
  /\ UNCHANGED <<listing, last_post_date, last_date, fetch_failed, idx,
                 latest_post_date, posts_checked, posts_downloaded, errors,
                 detail_fetched, downloaded, filtered,
                 files_downloaded, files_failed, download_result>>

\* download_manager.py:108-111 -- mutant: the accumulated posts are dropped
FetchPageErrorDropping ==
  /\ pc = "fetch"
  /\ UNCHANGED notSync
  /\ requests' = Append(requests, offset)
  /\ fetch_failed' = TRUE
  /\ pc' = "fetched"
  /\ new_posts' = <<>>
  /\ UNCHANGED <<listing, last_post_date, last_date, offset, idx,
                 latest_post_date, posts_checked, posts_downloaded, errors,
                 detail_fetched, downloaded, filtered,
                 files_downloaded, files_failed, download_result>>

\* fetch_posts_page raises (the retry policy gave up): the walk is aborted
FetchPageError ==
  /\ pc = "fetch"
  /\ UNCHANGED notSync
  /\ requests' = Append(requests, offset)
  /\ fetch_failed' = TRUE
  /\ pc' = "fetched"
  /\ UNCHANGED <<listing, last_post_date, last_date, offset, new_posts, idx,
                 latest_post_date, posts_checked, posts_downloaded, errors,
                 detail_fetched, downloaded, filtered,
                 files_downloaded, files_failed, download_result>>

\* download_artist_updates: no new posts
NoNewPosts ==
  /\ pc = "fetched"
  /\ UNCHANGED notSync
  /\ new_posts = <<>>
  /\ latest_post_date' = last_date
  /\ pc' = "report"
  /\ UNCHANGED <<listing, last_post_date, last_date, offset, new_posts,
                 requests, fetch_failed, idx, posts_checked, posts_downloaded,
                 errors, detail_fetched, downloaded, filtered,
                 files_downloaded, files_failed, download_result>>

\* _download_posts: the result record is set up
BeginPosts ==
  /\ pc = "fetched"
  /\ UNCHANGED notSync
  /\ new_posts # <<>>
  /\ latest_post_date' = InitialLatest(last_date)
  /\ posts_checked' = Len(new_posts)
  /\ idx' = 1
  /\ pc' = "posts"
  /\ UNCHANGED <<listing, last_post_date, last_date, offset, new_posts,
                 requests, fetch_failed, posts_downloaded, errors,
                 detail_fetched, downloaded, filtered,
                 files_downloaded, files_failed, download_result>>

\* download_manager.py:177-181 -- mutant: the exception leaves the for loop
AfterErrorAbort(i, n) == n + 1

\* _download_posts: the except clause sits inside the for loop, so the loop
\* goes on with the next post
AfterError(i, n) == i + 1

\* fetch_post raises: the error is recorded, the loop goes on
PostDetailError ==
  /\ pc = "posts"
  /\ UNCHANGED notSync
  /\ idx <= Len(new_posts)
  /\ errors' = Append(errors, new_posts[idx])
  /\ idx' = AfterError(idx, Len(new_posts))
  /\ UNCHANGED <<listing, last_post_date, last_date, pc, offset, new_posts,
                 requests, fetch_failed, latest_post_date, posts_checked,
                 posts_downloaded, detail_fetched, downloaded, filtered,
                 files_downloaded, files_failed, download_result>>

\* should_download answers false: continue
PostFiltered ==
  /\ pc = "posts"
  /\ UNCHANGED notSync
  /\ idx <= Len(new_posts)
  /\ detail_fetched' = Append(detail_fetched, new_posts[idx])
  /\ filtered' = Append(filtered, new_posts[idx])
  /\ idx' = idx + 1
  /\ UNCHANGED <<listing, last_post_date, last_date, pc, offset, new_posts,
                 requests, fetch_failed, latest_post_date, posts_checked,
                 posts_downloaded, errors, downloaded,
                 files_downloaded, files_failed, download_result>>

\* download_manager.py:172-175 -- mutant: the watermark is persisted post by
\* post
PostDownloadedPersisting ==
  /\ pc = "posts"
  /\ UNCHANGED notSync
  /\ idx <= Len(new_posts)
  /\ detail_fetched' = Append(detail_fetched, new_posts[idx])
  /\ downloaded' = Append(downloaded, new_posts[idx])
  /\ posts_downloaded' = posts_downloaded + 1
  /\ \E answers \in AnswerLists : download_result' = FilesResult(answers)
  /\ files_downloaded' = files_downloaded + download_result'.success
  /\ files_failed' = files_failed + download_result'.failed
  /\ latest_post_date' =
       UpdateLatest(latest_post_date, Published(new_posts[idx]))
  /\ last_post_date' = latest_post_date'
  /\ idx' = idx + 1
  /\ UNCHANGED <<listing, last_date, pc, offset, new_posts,
                 requests, fetch_failed, posts_checked, errors, filtered>>

\* the post is accepted and download_post_files returns
PostDownloaded ==
  /\ pc = "posts"
  /\ UNCHANGED notSync
  /\ idx <= Len(new_posts)
  /\ detail_fetched' = Append(detail_fetched, new_posts[idx])
  /\ downloaded' = Append(downloaded, new_posts[idx])
  /\ posts_downloaded' = posts_downloaded + 1
  /\ \E answers \in AnswerLists : download_result' = FilesResult(answers)
  /\ files_downloaded' = files_downloaded + download_result'.success
  /\ files_failed' = files_failed + download_result'.failed
  /\ latest_post_date' =
       UpdateLatest(latest_post_date, Published(new_posts[idx]))
  /\ idx' = idx + 1
  /\ UNCHANGED <<listing, last_post_date, last_date, pc, offset, new_posts,
                 requests, fetch_failed, posts_checked, errors, filtered>>

\* the post is accepted and _build_save_path or download_post_files raises
PostDownloadError ==
  /\ pc = "posts"
  /\ UNCHANGED notSync
  /\ idx <= Len(new_posts)
  /\ detail_fetched' = Append(detail_fetched, new_posts[idx])
  /\ errors' = Append(errors, new_posts[idx])
  /\ idx' = AfterError(idx, Len(new_posts))
  /\ UNCHANGED <<listing, last_post_date, last_date, pc, offset, new_posts,
                 requests, fetch_failed, latest_post_date, posts_checked,
                 posts_downloaded, downloaded, filtered,
                 files_downloaded, files_failed, download_result>>

\* _download_posts returns its result
PostsDone ==
  /\ pc = "posts"
  /\ UNCHANGED notSync
  /\ idx > Len(new_posts)
  /\ pc' = "report"
  /\ UNCHANGED <<listing, last_post_date, last_date, offset, new_posts,
                 requests, fetch_failed, idx, latest_post_date, posts_checked,
                 posts_downloaded, errors, detail_fetched, downloaded,
                 filtered,
                 files_downloaded, files_failed, download_result>>

\* Scheduler._check_and_download: the reported watermark is persisted
Report ==
  /\ pc = "report"
  /\ UNCHANGED notSync
  /\ last_post_date' =
       IF Truthy(latest_post_date) THEN latest_post_date ELSE last_post_date
  /\ pc' = "idle"
  /\ UNCHANGED <<listing, last_date, offset, new_posts, requests,
                 fetch_failed, idx, latest_post_date, posts_checked,
                 posts_downloaded, errors, detail_fetched, downloaded,
                 filtered,
                 files_downloaded, files_failed, download_result>>

NextSync ==
  \/ StartPass
  \/ FetchPageOk
  \/ FetchPageError
  \/ NoNewPosts
  \/ BeginPosts
  \/ PostDetailError
  \/ PostFiltered
  \/ PostDownloaded
  \/ PostDownloadError
  \/ PostsDone
  \/ Report

Spec == InitSync /\ [][NextSync]_vars

\* one call of _fetch_new_posts
NextWalk ==
  \/ StartPass
  \/ FetchPageOk
  \/ FetchPageError

\* the thread that runs the walk is not suspended for ever: every
\* fetch_posts_page call answers or raises (requests time out, and the retry
\* policy gives up after its attempts)
SpecWalk == InitSync /\ [][NextWalk]_vars /\ WF_vars(NextWalk)

\* ------------------------------------------------------------------ retry wrapper
\* a wrapped function is called: one of the API calls as configured, or an
\* operation wrapped with other decorator arguments
InitRetry ==
  /\ SyncIdle
  /\ DownloadIdle
  /\ FilterIdle
  /\ FilesIdle
  /\ RecurIdle
  /\ SchedIdle
  /\ RaceIdle
  /\ LoopIdle
  /\ r_func \in ApiCalls \cup {"operation"}
  /\ IF r_func \in ApiCalls
     THEN /\ r_max = ApiConfig(r_func).max
          /\ r_base = ApiConfig(r_func).base
          /\ r_exp = ApiConfig(r_func).exp
     ELSE /\ r_max \in 0..MaxAttempts
          /\ r_base \in 1..MaxBase
          /\ r_exp \in BOOLEAN
  /\ r_pc = "loop"
  /\ r_attempt = 0
  /\ r_calls = 0
  /\ r_fails = 0
  /\ r_sleeps = <<>>
  /\ r_last = NoError
  /\ r_ret = 0
  /\ r_result = "pending"
  /\ r_value = 0
  /\ r_msg = NoMessage

\* wrapper: range(max_retries) is exhausted without a return or a raise,
\* which happens for max_retries = 0 only; the wrapper falls off its end
RetryLoopExit ==
  /\ r_pc = "loop"
  /\ UNCHANGED notRetry
  /\ r_attempt >= r_max
  /\ r_result' = "None"
  /\ r_pc' = "returned"
  /\ UNCHANGED <<r_func, r_max, r_base, r_exp, r_attempt, r_calls, r_fails,
                 r_sleeps, r_last, r_ret, r_value, r_msg>>

\* wrapper: an attempt starts, with a sleep when it is a retry
EnterAttempt ==
  /\ r_pc = "loop"
  /\ UNCHANGED notRetry
  /\ r_attempt < r_max
  /\ r_sleeps' =
       IF SleepsBefore(r_attempt)
       THEN Append(r_sleeps,
                   [by |-> "wrapper", secs |-> Wait(r_base, r_attempt, r_exp)])
       ELSE r_sleeps
  /\ r_pc' = "call"
  /\ UNCHANGED <<r_func, r_max, r_base, r_exp, r_attempt, r_calls, r_fails,
                 r_last, r_ret, r_result, r_value, r_msg>>

\* the wrapped function returns a value, which the wrapper returns
InvokeReturns ==
  /\ r_pc = "call"
  /\ UNCHANGED notRetry
  /\ r_calls' = r_calls + 1
  /\ r_sleeps' = r_sleeps \o PreCallDelay(r_func)
  /\ \E v \in Values : r_ret' = v /\ r_value' = v
  /\ r_result' = "value"
  /\ r_pc' = "returned"
  /\ UNCHANGED <<r_func, r_max, r_base, r_exp, r_attempt, r_fails, r_last,
                 r_msg>>

\* the wrapped function raises requests.Timeout or requests.ConnectionError
InvokeNetworkError ==
  /\ r_pc = "call"
  /\ UNCHANGED notRetry
  /\ r_calls' = r_calls + 1
  /\ r_fails' = r_fails + 1
  /\ r_sleeps' = r_sleeps \o PreCallDelay(r_func)
  /\ \E k \in {"timeout", "connection"} :
       r_last' = [kind |-> k, status |-> 0]
  /\ IF r_attempt = r_max - 1
     THEN /\ r_msg' = [text |-> "Network error", status |-> 0,
                       attempts |-> r_max, cause |-> r_last']
          /\ r_result' = "raised"
          /\ r_pc' = "raised"
          /\ UNCHANGED r_attempt
     ELSE /\ r_attempt' = r_attempt + 1
          /\ r_pc' = "loop"
          /\ UNCHANGED <<r_msg, r_result>>
  /\ UNCHANGED <<r_func, r_max, r_base, r_exp, r_ret, r_value>>

\* the wrapped function raises requests.HTTPError
InvokeHttpError ==
  /\ r_pc = "call"
  /\ UNCHANGED notRetry
  /\ r_calls' = r_calls + 1
  /\ r_fails' = r_fails + 1
  /\ r_sleeps' = r_sleeps \o PreCallDelay(r_func)
  /\ \E s \in HttpStatuses : r_last' = [kind |-> "http", status |-> s]
  /\ IF RetriesHttp(r_last'.status, r_attempt, r_max)
     THEN /\ r_attempt' = r_attempt + 1
          /\ r_pc' = "loop"
          /\ UNCHANGED <<r_msg, r_result>>
     ELSE /\ r_msg' = [text |-> "HTTP error", status |-> r_last'.status,
                       attempts |-> -1, cause |-> r_last']
          /\ r_result' = "raised"
          /\ r_pc' = "raised"
          /\ UNCHANGED r_attempt
  /\ UNCHANGED <<r_func, r_max, r_base, r_exp, r_ret, r_value>>

\* the wrapped function raises any other exception
InvokeOtherError ==
  /\ r_pc = "call"
  /\ UNCHANGED notRetry
  /\ r_calls' = r_calls + 1
  /\ r_fails' = r_fails + 1
  /\ r_sleeps' = r_sleeps \o PreCallDelay(r_func)
  /\ r_last' = [kind |-> "other", status |-> 0]
  /\ r_msg' = [text |-> "Unexpected error", status |-> 0, attempts |-> -1,
               cause |-> r_last']
  /\ r_result' = "raised"
  /\ r_pc' = "raised"
  /\ UNCHANGED <<r_func, r_max, r_base, r_exp, r_attempt, r_ret, r_value>>

NextRetry ==
  \/ RetryLoopExit
  \/ EnterAttempt
  \/ InvokeReturns
  \/ InvokeNetworkError
  \/ InvokeHttpError
  \/ InvokeOtherError

SpecRetry == InitRetry /\ [][NextRetry]_vars

\* ------------------------------------------------------------------ filter call
\* should_download is called for a post, a global and a subject rule
InitFilter ==
  /\ SyncIdle
  /\ DownloadIdle
  /\ RetryIdle
  /\ FilesIdle
  /\ RecurIdle
  /\ SchedIdle
  /\ RaceIdle
  /\ LoopIdle
  /\ f_post \in Posts
  /\ use_global \in BOOLEAN
  /\ global_filter \in Rules(MaxClauses)
  /\ artist_filter \in Rules(MaxClauses - Cardinality(global_filter.keys))
  /\ f_pc = "global"
  /\ f_applied = <<>>
  /\ f_result = FALSE

\* should_download: the global rule, when enabled and not empty
ApplyGlobal ==
  /\ f_pc = "global"
  /\ UNCHANGED notFilter
  /\ IF GlobalApplies(use_global, global_filter)
     THEN /\ f_applied' = Append(f_applied, "global")
          /\ IF ~ApplyFilter(f_post, global_filter)
             THEN f_result' = FALSE /\ f_pc' = "done"
             ELSE f_result' = f_result /\ f_pc' = "artist"
     ELSE /\ f_pc' = "artist"
          /\ UNCHANGED <<f_applied, f_result>>
  /\ UNCHANGED <<f_post, global_filter, artist_filter, use_global>>

\* should_download: the subject rule, when not empty, and the return
ApplyArtist ==
  /\ f_pc = "artist"
  /\ UNCHANGED notFilter
  /\ IF NonEmptyDict(artist_filter)
     THEN /\ f_applied' = Append(f_applied, "artist")
          /\ f_result' = ApplyFilter(f_post, artist_filter)
     ELSE /\ f_result' = TRUE
          /\ UNCHANGED f_applied
  /\ f_pc' = "done"
  /\ UNCHANGED <<f_post, global_filter, artist_filter, use_global>>

NextFilter ==
  \/ ApplyGlobal
  \/ ApplyArtist

SpecFilter == InitFilter /\ [][NextFilter]_vars

\* ------------------------------------------------------------------ post files call
\* download_post_files is called for a post with some files
InitFiles ==
  /\ SyncIdle
  /\ DownloadIdle
  /\ RetryIdle
  /\ FilterIdle
  /\ RecurIdle
  /\ SchedIdle
  /\ RaceIdle
  /\ LoopIdle
  /\ files_to_download \in FileLists
  /\ pf_pc = "start"
  /\ pf_idx = 0
  /\ pf_calls = <<>>
  /\ pf_answers = <<>>
  /\ pf_success = 0
  /\ pf_failed = <<>>
  /\ pf_total = 0

\* download_post_files: the post has no files
NoFiles ==
  /\ pf_pc = "start"
  /\ UNCHANGED notFiles
  /\ files_to_download = <<>>
  /\ pf_pc' = "returned"
  /\ UNCHANGED <<files_to_download, pf_idx, pf_calls, pf_answers, pf_success,
                 pf_failed, pf_total>>

\* download_post_files: the results record is set up
BeginFiles ==
  /\ pf_pc = "start"
  /\ UNCHANGED notFiles
  /\ files_to_download # <<>>
  /\ pf_total' = Len(files_to_download)
  /\ pf_pc' = "files"
  /\ UNCHANGED <<files_to_download, pf_idx, pf_calls, pf_answers, pf_success,
                 pf_failed>>

\* one iteration of the for loop: download_file is called and answers
DownloadOneFile ==
  /\ pf_pc = "files"
  /\ UNCHANGED notFiles
  /\ pf_idx < Len(files_to_download)
  /\ \E res \in DownloadResults :
       LET file == files_to_download[pf_idx + 1]
           call == [url |-> file.url,
                    save_path |-> SavePath(file.name, file.url, pf_idx)]
       IN /\ pf_calls' = Append(pf_calls, call)
          /\ pf_answers' = Append(pf_answers, res)
          /\ IF Succeeded(res)
             THEN pf_success' = pf_success + 1 /\ UNCHANGED pf_failed
             ELSE pf_failed' = Append(pf_failed, call) /\ UNCHANGED pf_success
          /\ pf_idx' = NextFile(pf_idx, res, Len(files_to_download))
  /\ UNCHANGED <<files_to_download, pf_pc, pf_total>>

\* download_post_files returns its results
FilesDone ==
  /\ pf_pc = "files"
  /\ UNCHANGED notFiles
  /\ pf_idx >= Len(files_to_download)
  /\ pf_pc' = "returned"
  /\ UNCHANGED <<files_to_download, pf_idx, pf_calls, pf_answers, pf_success,
                 pf_failed, pf_total>>

NextFiles ==
  \/ NoFiles
  \/ BeginFiles
  \/ DownloadOneFile
  \/ FilesDone

SpecFiles == InitFiles /\ [][NextFiles]_vars

\* ------------------------------------------------------------------ recurrence call
\* _calculate_next_run is called with a timer at some instant of two years
InitRecur ==
  /\ SyncIdle
  /\ DownloadIdle
  /\ RetryIdle
  /\ FilterIdle
  /\ FilesIdle
  /\ SchedIdle
  /\ RaceIdle
  /\ LoopIdle
  /\ rc_timer \in Timers
  /\ rc_now \in 0..(Days(2 * DaysPerYear) - 1)
  /\ rc_pc = "call"
  /\ rc_next = 0

\* the call returns an instant
Resolve ==
  /\ rc_pc = "call"
  /\ UNCHANGED notRecur
  /\ CalculateNextRun(rc_timer, rc_now) # ValueError
  /\ rc_next' = CalculateNextRun(rc_timer, rc_now)
  /\ rc_pc' = "returned"
  /\ UNCHANGED <<rc_timer, rc_now>>

\* datetime.replace raises and the call is left with the exception
ResolveRaises ==
  /\ rc_pc = "call"
  /\ UNCHANGED notRecur
  /\ CalculateNextRun(rc_timer, rc_now) = ValueError
  /\ rc_next' = ValueError
  /\ rc_pc' = "raised"
  /\ UNCHANGED <<rc_timer, rc_now>>

NextRecur ==
  \/ Resolve
  \/ ResolveRaises

SpecRecur == InitRecur /\ [][NextRecur]_vars

\* ------------------------------------------------------------------ scheduler run
\* main: at some clock reading the scheduler thread is started and the
\* command loop prompts
InitSched ==
  /\ SyncIdle
  /\ DownloadIdle
  /\ RetryIdle
  /\ FilterIdle
  /\ FilesIdle
  /\ RecurIdle
  /\ RaceIdle
  /\ LoopIdle
  /\ artists \in ArtistLists
  /\ clock \in 0..MaxClock
  /\ next_run_times = <<>>
  /\ sched_pc = "tick"
  /\ tick_now = 0
  /\ sched_k = 1
  /\ evaluated = {}
  /\ sched_pass = 0
  /\ cli_pc = "prompt"
  /\ cli_k = 1
  /\ cli_pass = 0

\* the wall clock moves on, while the scheduler thread sleeps or runs a pass;
\* the other steps of the loop take no time at the scale of a slot
TimePasses ==
  /\ sched_pc \in {"sleep", "except", "pass"}
  /\ UNCHANGED notSched
  /\ clock < MaxClock
  /\ clock' = clock + 1
  /\ UNCHANGED <<artists, next_run_times, sched_pc, tick_now, sched_k,
                 evaluated, sched_pass, cli_pc, cli_k, cli_pass>>

\* _run_loop: the head of the while loop reads the clock and the subjects
BeginTick ==
  /\ sched_pc = "tick"
  /\ UNCHANGED notSched
  /\ tick_now' = clock
  /\ sched_k' = 1
  /\ evaluated' = {}
  /\ sched_pc' = "subject"
  /\ UNCHANGED <<artists, clock, next_run_times, sched_pass,
                 cli_pc, cli_k, cli_pass>>

\* _run_loop: a subject without a timer is skipped
SkipNoTimer ==
  /\ sched_pc = "subject"
  /\ UNCHANGED notSched
  /\ sched_k <= Len(artists)
  /\ ~HasTimer(artists[sched_k])
  /\ evaluated' = evaluated \cup {sched_k}
  /\ sched_k' = sched_k + 1
  /\ UNCHANGED <<artists, clock, next_run_times, sched_pc, tick_now,
                 sched_pass, cli_pc, cli_k, cli_pass>>

\* _run_loop: the first _calculate_next_run of a subject raises and the
\* exception leaves the for loop for the handler of the while loop
FirstSightRaises ==
  /\ sched_pc = "subject"
  /\ UNCHANGED notSched
  /\ sched_k <= Len(artists)
  /\ HasTimer(artists[sched_k])
  /\ EntryRaises(next_run_times, sched_k, artists[sched_k], clock)
  /\ evaluated' = evaluated \cup {sched_k}
  /\ sched_pc' = "except"
  /\ UNCHANGED <<artists, clock, next_run_times, tick_now, sched_k,
                 sched_pass, cli_pc, cli_k, cli_pass>>

\* _run_loop: the subject is not due
NotDue ==
  /\ sched_pc = "subject"
  /\ UNCHANGED notSched
  /\ sched_k <= Len(artists)
  /\ HasTimer(artists[sched_k])
  /\ ~EntryRaises(next_run_times, sched_k, artists[sched_k], clock)
  /\ next_run_times' =
       EntryEnsured(next_run_times, sched_k, artists[sched_k], clock)
  /\ ~(tick_now >= next_run_times'[sched_k])
  /\ evaluated' = evaluated \cup {sched_k}
  /\ sched_k' = sched_k + 1
  /\ UNCHANGED <<artists, clock, sched_pc, tick_now, sched_pass,
                 cli_pc, cli_k, cli_pass>>

\* _run_loop: the subject is due and _check_and_download is called
Trigger ==
  /\ sched_pc = "subject"
  /\ UNCHANGED notSched
  /\ sched_k <= Len(artists)
  /\ HasTimer(artists[sched_k])
  /\ ~EntryRaises(next_run_times, sched_k, artists[sched_k], clock)
  /\ next_run_times' =
       EntryEnsured(next_run_times, sched_k, artists[sched_k], clock)
  /\ tick_now >= next_run_times'[sched_k]
  /\ evaluated' = evaluated \cup {sched_k}
  /\ sched_pass' = sched_k
  /\ sched_pc' = "pass"
  /\ UNCHANGED <<artists, clock, tick_now, sched_k, cli_pc, cli_k,
                 cli_pass>>

\* _check_and_download returns to _run_loop, having caught what the pass
\* raised
PassReturns ==
  /\ sched_pc = "pass"
  /\ UNCHANGED notSched
  /\ sched_pass' = 0
  /\ sched_pc' = "rearm"
  /\ UNCHANGED <<artists, clock, next_run_times, tick_now, sched_k,
                 evaluated, cli_pc, cli_k, cli_pass>>

\* _run_loop line 148: the next run of the subject is computed
Rearm ==
  /\ sched_pc = "rearm"
  /\ UNCHANGED notSched
  /\ CalculateNextRun(artists[sched_k], clock) # ValueError
  /\ next_run_times' =
       SetEntry(next_run_times, sched_k,
                CalculateNextRun(artists[sched_k], clock))
  /\ sched_k' = sched_k + 1
  /\ sched_pc' = "subject"
  /\ UNCHANGED <<artists, clock, tick_now, evaluated, sched_pass,
                 cli_pc, cli_k, cli_pass>>

\* _run_loop line 148: _calculate_next_run raises, the entry stays and the
\* exception leaves the for loop
RearmRaises ==
  /\ sched_pc = "rearm"
  /\ UNCHANGED notSched
  /\ CalculateNextRun(artists[sched_k], clock) = ValueError
  /\ sched_pc' = "except"
  /\ UNCHANGED <<artists, clock, next_run_times, tick_now, sched_k,
                 evaluated, sched_pass, cli_pc, cli_k, cli_pass>>

\* _run_loop: the for loop is over, the thread sleeps
EndTick ==
  /\ sched_pc = "subject"
  /\ UNCHANGED notSched
  /\ sched_k > Len(artists)
  /\ sched_pc' = "sleep"
  /\ UNCHANGED <<artists, clock, next_run_times, tick_now, sched_k,
                 evaluated, sched_pass, cli_pc, cli_k, cli_pass>>

\* _run_loop: time.sleep(60) is over, in the loop body or in the handler
WakeUp ==
  /\ sched_pc \in {"sleep", "except"}
  /\ UNCHANGED notSched
  /\ sched_pc' = "tick"
  /\ UNCHANGED <<artists, clock, next_run_times, tick_now, sched_k,
                 evaluated, sched_pass, cli_pc, cli_k, cli_pass>>

\* CLI._cmd_check_now: the user picks a subject
CmdCheckNow ==
  /\ cli_pc = "prompt"
  /\ UNCHANGED notSched
  /\ \E a \in 1..Len(artists) : cli_pass' = a
  /\ cli_pc' = "check_now"
  /\ UNCHANGED <<artists, clock, next_run_times, sched_pc, tick_now, sched_k,
                 evaluated, sched_pass, cli_k>>

\* CLI._cmd_check_all: the for loop starts
CmdCheckAll ==
  /\ cli_pc = "prompt"
  /\ UNCHANGED notSched
  /\ cli_k' = 1
  /\ cli_pc' = "check_all"
  /\ UNCHANGED <<artists, clock, next_run_times, sched_pc, tick_now, sched_k,
                 evaluated, sched_pass, cli_pass>>

\* CLI._cmd_check_all: _check_and_download is called for the next subject
CheckAllCalls ==
  /\ cli_pc = "check_all"
  /\ UNCHANGED notSched
  /\ cli_k <= Len(artists)
  /\ cli_pass' = cli_k
  /\ cli_pc' = "check_all_pass"
  /\ UNCHANGED <<artists, clock, next_run_times, sched_pc, tick_now, sched_k,
                 evaluated, sched_pass, cli_k>>

\* _check_and_download returns to _cmd_check_now or to the for loop of
\* _cmd_check_all
CliPassReturns ==
  /\ cli_pc \in {"check_now", "check_all_pass"}
  /\ UNCHANGED notSched
  /\ cli_pass' = 0
  /\ IF cli_pc = "check_now"
     THEN cli_pc' = "prompt" /\ UNCHANGED cli_k
     ELSE cli_pc' = "check_all" /\ cli_k' = cli_k + 1
  /\ UNCHANGED <<artists, clock, next_run_times, sched_pc, tick_now, sched_k,
                 evaluated, sched_pass>>

\* CLI._cmd_check_all: every subject was checked
CheckAllDone ==
  /\ cli_pc = "check_all"
  /\ UNCHANGED notSched
  /\ cli_k > Len(artists)
  /\ cli_pc' = "prompt"
  /\ UNCHANGED <<artists, clock, next_run_times, sched_pc, tick_now, sched_k,
                 evaluated, sched_pass, cli_k, cli_pass>>

NextSched ==
  \/ TimePasses
  \/ BeginTick
  \/ SkipNoTimer
  \/ FirstSightRaises
  \/ NotDue
  \/ Trigger
  \/ PassReturns
  \/ Rearm
  \/ RearmRaises
  \/ EndTick
  \/ WakeUp
  \/ CmdCheckNow
  \/ CmdCheckAll
  \/ CheckAllCalls
  \/ CliPassReturns
  \/ CheckAllDone

SpecSched == InitSched /\ [][NextSched]_vars

\* CLI._cmd_set_timer, choice 2: the user gives a subject a new timer and
\* ArtistManager.update_artist stores it.  The command is taken between two
\* ticks, while the scheduler thread holds no copy of the subjects.
CmdSetTimer ==
  /\ cli_pc = "prompt"
  /\ sched_pc \in {"sleep", "except", "tick"}
  /\ UNCHANGED notSched
  /\ \E a \in 1..Len(artists) :
       \E timer \in SchedTimers \ {NoTimer} :
         artists' = [artists EXCEPT ![a] = timer]
  /\ UNCHANGED <<clock, next_run_times, sched_pc, tick_now, sched_k,
                 evaluated, sched_pass, cli_pc, cli_k, cli_pass>>

NextSchedEdit ==
  \/ NextSched
  \/ CmdSetTimer

\* the scheduler run with a user who also edits timers
SpecSchedEdit == InitSched /\ [][NextSchedEdit]_vars

\* ------------------------------------------------------------------ concurrent passes run
\* a subject with some persisted watermark, no pass in progress
InitRace ==
  /\ SyncIdle
  /\ DownloadIdle
  /\ RetryIdle
  /\ FilterIdle
  /\ FilesIdle
  /\ RecurIdle
  /\ SchedIdle
  /\ LoopIdle
  /\ stored_date \in TS
  /\ p_pc = [c \in Callers |-> "idle"]
  /\ p_last_date = [c \in Callers |-> 0]
  /\ p_latest = [c \in Callers |-> 0]

\* _run_loop, _cmd_check_now, _cmd_check_all: get_all_artists hands the
\* thread a copy of the subject, and _check_and_download is called with it
TakeCopy(c) ==
  /\ p_pc[c] = "idle"
  /\ UNCHANGED notRace
  /\ p_last_date' = [p_last_date EXCEPT ![c] = stored_date]
  /\ p_pc' = [p_pc EXCEPT ![c] = "pass"]
  /\ UNCHANGED <<stored_date, p_latest>>

\* download_artist_updates returns without a downloaded post: no new post,
\* or every new post filtered or failed
PassWithoutDownload(c) ==
  /\ p_pc[c] = "pass"
  /\ UNCHANGED notRace
  /\ p_latest' = [p_latest EXCEPT ![c] = InitialLatest(p_last_date[c])]
  /\ p_pc' = [p_pc EXCEPT ![c] = "report"]
  /\ UNCHANGED <<stored_date, p_last_date>>

\* download_artist_updates returns after it downloaded posts, which are
\* newer than the watermark of the copy
PassWithDownload(c) ==
  /\ p_pc[c] = "pass"
  /\ UNCHANGED notRace
  /\ \E post_date \in TS :
       /\ ~StopsAt(post_date, p_last_date[c])
       /\ p_latest' =
            [p_latest EXCEPT ![c] = LatestAfter(p_last_date[c], post_date)]
  /\ p_pc' = [p_pc EXCEPT ![c] = "report"]
  /\ UNCHANGED <<stored_date, p_last_date>>

\* _check_and_download: update_last_post_date when the reported watermark
\* is truthy
Persist(c) ==
  /\ p_pc[c] = "report"
  /\ UNCHANGED notRace
  /\ stored_date' =
       IF Truthy(p_latest[c]) THEN p_latest[c] ELSE stored_date
  /\ p_pc' = [p_pc EXCEPT ![c] = "idle"]
  /\ UNCHANGED <<p_last_date, p_latest>>

NextRace ==
  \/ \E c \in Callers : TakeCopy(c)
  \/ \E c \in Callers : PassWithoutDownload(c)
  \/ \E c \in Callers : PassWithDownload(c)
  \/ \E c \in Callers : Persist(c)

SpecRace == InitRace /\ [][NextRace]_vars

\* ------------------------------------------------------------------ scheduler threads run
\* Scheduler.__init__
InitLoop ==
  /\ SyncIdle
  /\ DownloadIdle
  /\ RetryIdle
  /\ FilterIdle
  /\ FilesIdle
  /\ RecurIdle
  /\ SchedIdle
  /\ RaceIdle
  /\ running = FALSE
  /\ threads = <<>>
  /\ caller_pc = "ready"
  /\ start_calls = 0

\* Scheduler.start while running: nothing but a message
StartWhileRunning ==
  /\ caller_pc = "ready"
  /\ UNCHANGED notLoop
  /\ start_calls < MaxStarts
  /\ running
  /\ start_calls' = start_calls + 1
  /\ UNCHANGED <<running, threads, caller_pc>>

\* Scheduler.start: the flag is set and a new thread is started
StartThread ==
  /\ caller_pc = "ready"
  /\ UNCHANGED notLoop
  /\ start_calls < MaxStarts
  /\ ~running
  /\ running' = TRUE
  /\ threads' = Append(threads, "started")
  /\ start_calls' = start_calls + 1
  /\ UNCHANGED caller_pc

\* Scheduler.stop while running: the flag is cleared and the caller joins
\* the thread with a timeout; stop while not running returns at once
Stop ==
  /\ caller_pc = "ready"
  /\ UNCHANGED notLoop
  /\ running
  /\ running' = FALSE
  /\ caller_pc' = "joining"
  /\ UNCHANGED <<threads, start_calls>>

\* thread.join(timeout=5) returns: the thread has ended or the five seconds
\* are over
JoinReturns ==
  /\ caller_pc = "joining"
  /\ UNCHANGED notLoop
  /\ caller_pc' = "ready"
  /\ UNCHANGED <<running, threads, start_calls>>

\* _run_loop: the while condition is evaluated, by a thread that has just
\* been started or that has finished an iteration
LoopHead(i) ==
  /\ threads[i] \in {"started", "head"}
  /\ UNCHANGED notLoop
  /\ threads' = [threads EXCEPT ![i] = IF running THEN "body" ELSE "ended"]
  /\ UNCHANGED <<running, caller_pc, start_calls>>

\* _run_loop: the body of the while loop with its sleep of 60 seconds is over
LoopBody(i) ==
  /\ threads[i] = "body"
  /\ UNCHANGED notLoop
  /\ threads' = [threads EXCEPT ![i] = "head"]
  /\ UNCHANGED <<running, caller_pc, start_calls>>

NextLoop ==
  \/ StartWhileRunning
  \/ StartThread
  \/ Stop
  \/ JoinReturns
  \/ \E i \in 1..Len(threads) : LoopHead(i)
  \/ \E i \in 1..Len(threads) : LoopBody(i)

SpecLoop == InitLoop /\ [][NextLoop]_vars

\* ------------------------------------------------------------------ claims
\* the walk of _fetch_new_posts has returned
WalkDone == pc \in {"fetched", "posts", "report"}

\* listing positions whose post is newer than the watermark w
Newer(w) == {p \in 1..Len(listing) : listing[p] > w}

\* listing positions whose post is at or below the watermark w
NotNewer(w) == {p \in 1..Len(listing) : listing[p] <= w}

FirstNotNewer(w) == CHOOSE p \in NotNewer(w) : \A q \in NotNewer(w) : p <= q

\* offset of the page that holds listing position p
PageOffsetOf(p) == ((p - 1) \div PageSize) * PageSize

\* C1: with a watermark W set and every listing request answering, the walk
\* returns exactly the posts with publish timestamp > W, in listing order,
\* and no page is requested beyond the page holding the first post with
\* timestamp <= W.
C1_IncrementalFetch ==
  /\ (WalkDone /\ Truthy(last_date) /\ ~fetch_failed) =>
       new_posts = [k \in 1..Cardinality(Newer(last_date)) |-> k]
  /\ (Truthy(last_date) /\ NotNewer(last_date) # {}) =>
       \A r \in 1..Len(requests) :
         requests[r] <= PageOffsetOf(FirstNotNewer(last_date))

\* the watermark equals the timestamp of a post on the first page, newer
\* posts precede it, and a further page exists that was never requested
C1_Witness ==
  /\ pc = "fetched" /\ Truthy(last_date) /\ ~fetch_failed
  /\ new_posts # <<>>
  /\ \E p \in 1..PageSize : p <= Len(listing) /\ listing[p] = last_date
  /\ Len(listing) > PageSize
  /\ requests = <<0>>

Dates(ps) == [k \in 1..Len(ps) |-> Published(ps[k])]

\* C3 (as stated): the reported watermark is the maximum of the prior
\* watermark and the timestamps of every new post fetched, rejected and
\* failed posts included.
C3_MaxOfAllFetched ==
  pc = "report" =>
    latest_post_date = Max(last_date, SeqMax(Dates(new_posts)))

\* C3 (amended): the reported watermark is the maximum of the prior watermark
\* and the timestamps of the new posts that passed the filter and whose
\* download step returned; rejected and failed posts do not count.
C3_MaxOfDownloaded ==
  pc = "report" =>
    latest_post_date = Max(last_date, SeqMax(Dates(downloaded)))

\* a pass that downloaded a post after rejecting a newer one and failing on
\* another
C3_Witness ==
  /\ pc = "report"
  /\ downloaded # <<>> /\ filtered # <<>> /\ errors # <<>>
  /\ latest_post_date > last_date
  /\ latest_post_date < SeqMax(Dates(new_posts))

\* C4: the watermark a pass reports is never below the watermark the pass
\* started from, and equals it when no new post was found.
C4_NoRegression ==
  pc = "report" =>
    /\ latest_post_date >= last_date
    /\ (new_posts = <<>> => latest_post_date = last_date)

\* a pass with a watermark whose new posts were all rejected or failed
C4_Witness ==
  /\ pc = "report" /\ Truthy(last_date)
  /\ new_posts # <<>> /\ downloaded = <<>>
  /\ filtered # <<>> /\ errors # <<>>

\* C5 scenario: ranks 1 = 2023-12-31, 2 = 2024-01-01T00:00:00 (the
\* watermark), 3 = 2024-01-02, 4 = 2024-01-03; nothing rejected, nothing failed
C5_Scenario ==
  /\ listing = <<4, 3, 1>>
  /\ last_date = 2
  /\ ~fetch_failed /\ errors = <<>> /\ filtered = <<>>

\* C5: in that scenario the pass fetches detail and downloads files for the
\* first two posts only and reports (and then persists) the 2024-01-03
\* timestamp as the new watermark.
C5_EndToEnd ==
  /\ (C5_Scenario /\ pc \in {"posts", "report"}) =>
       /\ 3 \notin Range(detail_fetched) \cup Range(downloaded)
       /\ requests = <<0>>
  /\ (C5_Scenario /\ pc = "report") =>
       /\ detail_fetched = <<1, 2>>
       /\ downloaded = <<1, 2>>
       /\ latest_post_date = 4
  /\ (C5_Scenario /\ pc = "idle" /\ requests # <<>>) =>
       last_post_date = 4

\* the scenario's pass has ended and its watermark is stored
C5_Witness ==
  /\ C5_Scenario
  /\ pc = "idle" /\ downloaded = <<1, 2>>
  /\ last_post_date = 4

\* the HEAD probe answered with the size of the file found at the destination
ProbeSizeEqual ==
  dpc # "check" /\ head_size >= 0 /\ head_size = Len(given_bytes)

\* the call returned success without a GET and without touching the file
SkippedUntouched ==
  /\ dpc = "done" /\ result = "True"
  /\ gets = <<>>
  /\ file_exists /\ file_bytes = given_bytes

\* C6 (as stated): whenever the destination exists and the probe reports a
\* size equal to the local size, size 0 included, download_file returns
\* success, issues no GET and leaves the file unchanged.
C6_SkipOnAnyEqualSize == ProbeSizeEqual => SkippedUntouched

\* C6 (amended): the same for every reported size greater than 0.
C6_SkipOnEqualPositiveSize ==
  (ProbeSizeEqual /\ head_size > 0) => SkippedUntouched

\* a file of the reported size whose bytes differ from the remote ones is
\* kept as it is
C6_Witness ==
  /\ ProbeSizeEqual /\ head_size > 0
  /\ SkippedUntouched
  /\ given_bytes # remote

\* the attempt sent a Range header and was answered with status 200
Downgraded == range_from > 0 /\ status_code = 200

\* the call returned success from an attempt
AttemptCompleted == dpc = "done" /\ result = "True" /\ gets # <<>>

\* C7: in an attempt that asked for a resume and got status 200, the file
\* holds nothing but the body bytes written so far, from offset 0, and after
\* the attempt completed it is exactly the response body.
C7_ResumeDowngrade ==
  Downgraded =>
    /\ (dpc \in {"open", "stream"} => resume_pos = 0)
    /\ (dpc = "stream" => file_bytes = SubSeq(body, 1, written))
    /\ (AttemptCompleted => file_bytes = body)

\* a stale partial file that is no prefix of the body was replaced by it
C7_Witness ==
  /\ Downgraded /\ AttemptCompleted
  /\ start_bytes # <<>> /\ body # <<>>
  /\ start_bytes[1] # body[1]
  /\ file_bytes = body

\* the attempt has issued its GET and has not ended
InAttempt == dpc \in {"get", "response", "open", "stream"}

\* C8: the Range header of an attempt is sent iff the on-disk length L at its
\* start is > 0 and asks for the bytes from L; on a 206 answer the body is
\* appended to the L bytes; with L = 0 the file is opened truncating.
C8_ByteRangeResume ==
  /\ InAttempt =>
       /\ range_from = (IF Len(start_bytes) > 0 THEN Len(start_bytes) ELSE -1)
       /\ gets[Len(gets)] = range_from
  /\ (status_code = 206 /\ dpc = "stream") =>
       /\ write_mode = "ab"
       /\ file_bytes = start_bytes \o SubSeq(body, 1, written)
  /\ (status_code = 206 /\ AttemptCompleted) =>
       file_bytes = start_bytes \o body
  /\ (dpc = "stream" /\ Len(start_bytes) = 0) => write_mode = "wb"

\* a partial file was completed to the remote content by a 206 answer
C8_Witness ==
  /\ status_code = 206 /\ AttemptCompleted
  /\ start_bytes # <<>> /\ body # <<>>
  /\ file_bytes = remote

\* C9 (as stated): an attempt whose GET is answered with a status other than
\* 200 and 206 fails: it never gets to open or write the destination and
\* never completes.
C9_OtherStatusFails ==
  (dpc \in {"open", "stream"} \/ AttemptCompleted) =>
    status_code \in {200, 206}

\* C10: at most max_retries GETs, one per attempt; the wait after failed
\* attempt a (0-based, not the last) is 2^(a+1) seconds; no wait follows the
\* last attempt; each attempt resumes from the length found on disk; the
\* call ends with the first attempt that completes.
C10_AttemptLoop ==
  /\ Len(gets) <= max_retries
  /\ Len(sleeps) = attempt
  /\ \A a \in 1..Len(sleeps) : sleeps[a] = 2 ^ a
  /\ (InAttempt \/ dpc = "failed") => Len(gets) = attempt + 1
  /\ dpc = "get" => resume_pos = (IF file_exists THEN Len(file_bytes) ELSE 0)
  /\ (dpc = "done" /\ result = "False") =>
       /\ Len(gets) = max_retries
       /\ Len(sleeps) = max_retries - 1
  /\ AttemptCompleted =>
       /\ Len(gets) = attempt + 1
       /\ Len(sleeps) = Len(gets) - 1

\* the third attempt, resuming what the second left on disk, completed after
\* waits of 2 and 4 seconds
C10_Witness ==
  /\ AttemptCompleted
  /\ sleeps = <<2, 4>>
  /\ Len(gets) = 3 /\ gets[1] = -1 /\ gets[3] > 0
  /\ status_code = 206

\* C11: when the last attempt of download_file has failed, the call returns
\* False and the file is left exactly as that attempt left it (neither
\* deleted nor truncated).
C11_TerminalFailure ==
  [][(dpc = "failed" /\ ~(attempt < max_retries - 1)) =>
       /\ dpc' = "done" /\ result' = "False"
       /\ file_exists' = file_exists
       /\ file_bytes' = file_bytes]_vars

\* every attempt failed and a partial file written by the last one is kept
C11_Witness ==
  /\ dpc = "done" /\ result = "False"
  /\ Len(gets) = max_retries /\ max_retries > 1
  /\ file_exists /\ written > 0
  /\ file_bytes # given_bytes

\* s is an initial part of t
IsPrefix(s, t) == Len(s) <= Len(t) /\ SubSeq(t, 1, Len(s)) = s

\* C12: a step of download_file removes the destination or drops bytes of it
\* only inside an attempt that asked for a resume and was answered with
\* status 200; every other step keeps the bytes on disk, so the length
\* never decreases.
C12_NoDeletionOutsideDowngrade ==
  [][((file_exists /\ ~file_exists') \/ ~IsPrefix(file_bytes, file_bytes')) =>
       (Downgraded /\ dpc \in {"response", "open"})]_vars

\* the partial file was removed in a downgraded attempt
C12_Witness ==
  /\ Downgraded /\ dpc = "open"
  /\ start_bytes # <<>>
  /\ ~file_exists

\* sleeps of the retry wrapper itself
WrapperSleeps == SelectSeq(r_sleeps, LAMBDA e : e.by = "wrapper")

\* C13: a wrapped operation that raised retryable errors k times (k below
\* max attempts) and then returned was invoked exactly k+1 times, the wrapper
\* slept exactly k times, never before the first invocation, and the wrapper
\* returns the value of the successful invocation.
C13_RetryThenSuccess ==
  /\ (r_calls = 0 => WrapperSleeps = <<>>)
  /\ (r_pc = "returned" /\ r_calls > 0) =>
       /\ r_fails < r_max
       /\ r_calls = r_fails + 1
       /\ Len(WrapperSleeps) = r_fails
       /\ r_result = "value" /\ r_value = r_ret /\ r_ret \in Values

\* the spec's case: three attempts allowed, exponential backoff, two
\* failures and then a success
C13_Witness ==
  /\ r_func = "operation" /\ r_max = 3 /\ r_exp
  /\ r_pc = "returned" /\ r_fails = 2 /\ r_calls = 3
  /\ Len(WrapperSleeps) = 2
  /\ r_value = r_ret /\ r_ret \in Values

\* the last failure is one the wrapper never retries
NonRetryable ==
  \/ r_last.kind = "other"
  \/ r_last.kind = "http" /\ r_last.status \notin RetryStatus

\* C14: an HTTP error with a status outside the retryable set, or an error
\* that is no timeout, connection error or HTTP error, ends the call at once:
\* the failing invocation is not repeated, no sleep follows it, and when it
\* was the first invocation the operation ran exactly once without any sleep.
C14_NonRetryableOnce ==
  NonRetryable =>
    /\ r_pc = "raised" /\ r_result = "raised"
    /\ r_calls = r_fails
    /\ r_calls = r_attempt + 1
    /\ Len(WrapperSleeps) = r_calls - 1
    /\ r_msg.cause = r_last

\* a 404 on the first invocation of an operation that had retries left
C14_Witness ==
  /\ r_last = [kind |-> "http", status |-> 404]
  /\ r_pc = "raised" /\ r_calls = 1 /\ r_max > 1
  /\ r_sleeps = <<>>

\* the last failure of an API call is an HTTP error with a 4xx status
\* outside the set ex
Client4xxExcept(ex) ==
  /\ r_func \in ApiCalls
  /\ r_last.kind = "http"
  /\ r_last.status >= 400 /\ r_last.status < 500
  /\ r_last.status \notin ex

\* the wrapper swallowed the last failure and goes on
Retrying == r_pc \in {"loop", "call"} /\ r_fails > 0

\* C15 (as stated): for the three API calls an HTTP error with a 4xx status
\* other than 429 is never retried, and only 429, 500, 502, 503 and 504 are.
C15_Only429Retried ==
  /\ Client4xxExcept({429}) => r_pc = "raised"
  /\ (r_func \in ApiCalls /\ Retrying /\ r_last.kind = "http") =>
       r_last.status \in {429, 500, 502, 503, 504}

\* C15 (amended): for the three API calls an HTTP error with a 4xx status
\* other than 403 and 429 ends the call at once, the failing invocation not
\* being repeated; only 403, 429, 500, 502, 503 and 504 are retried.
C15_Only403And429Retried ==
  /\ Client4xxExcept({403, 429}) =>
       /\ r_pc = "raised"
       /\ r_calls = r_attempt + 1
       /\ Len(WrapperSleeps) = r_calls - 1
  /\ (r_func \in ApiCalls /\ Retrying /\ r_last.kind = "http") =>
       r_last.status \in {403, 429, 500, 502, 503, 504}

\* fetch_posts_page answered 404 to its first invocation and raised
C15_Witness ==
  /\ r_func = "fetch_posts_page"
  /\ r_last = [kind |-> "http", status |-> 404]
  /\ r_pc = "raised" /\ r_calls = 1
  /\ r_sleeps = <<>>

\* C16 (as stated): when every invocation fails with a timeout, a connection
\* error or a retryable HTTP status, the operation is invoked exactly
\* max-attempts times and the one failure surfaced describes the last
\* underlying cause and the attempt count.
C16_Exhaustion ==
  /\ r_calls <= r_max
  /\ (r_pc = "raised" /\ ~NonRetryable) =>
       /\ r_calls = r_max
       /\ r_fails = r_max
       /\ r_msg.cause = r_last
       /\ r_msg.attempts = r_max

RECURSIVE Schedule(_)
\* the sleeps due up to the end of the k-th invocation: before each retry
\* n >= 1 base^n or base*n seconds, and fetch_post's own second before
\* every invocation
Schedule(k) ==
  IF k = 0 THEN <<>>
  ELSE Schedule(k - 1)
         \o (IF k - 1 >= 1
             THEN <<[by |-> "wrapper",
                     secs |-> IF r_exp THEN r_base ^ (k - 1)
                                       ELSE r_base * (k - 1)]>>
             ELSE <<>>)
         \o (IF r_func = "fetch_post"
             THEN <<[by |-> "function", secs |-> 1]>>
             ELSE <<>>)

\* C17: the sleep before the n-th retry (n >= 1) lasts base^n seconds with
\* exponential backoff and base*n seconds otherwise, none precedes the first
\* invocation, and fetch_post adds its 1-second delay before every
\* invocation, retries included.
C17_BackoffSchedule ==
  /\ r_pc # "call" => r_sleeps = Schedule(r_calls)
  /\ r_pc = "call" =>
       /\ r_calls = r_attempt
       /\ r_sleeps = SubSeq(Schedule(r_calls + 1), 1, Len(r_sleeps))
       /\ Len(r_sleeps) = Len(Schedule(r_calls)) + (IF r_calls > 0 THEN 1 ELSE 0)

\* fetch_post returned at its third invocation
C17_Witness ==
  /\ r_func = "fetch_post" /\ r_pc = "returned"
  /\ r_sleeps = <<[by |-> "function", secs |-> 1],
                  [by |-> "wrapper", secs |-> 5],
                  [by |-> "function", secs |-> 1],
                  [by |-> "wrapper", secs |-> 25],
                  [by |-> "function", secs |-> 1]>>

\* ---- filter claims: what the rules mean, stated without the code's steps
CasePairs == {<<"s", "S">>, <<"k", "K">>, <<"w", "W">>, <<"i", "I">>,
              <<"p", "P">>}

EqIgnoreCase(a, b) == a = b \/ <<a, b>> \in CasePairs \/ <<b, a>> \in CasePairs

\* kw occurs in title as a contiguous run, letter case aside
Occurs(kw, title) ==
  \E i \in 0..(Len(title) - Len(kw)) :
    \A j \in 1..Len(kw) : EqIgnoreCase(title[i + j], kw[j])

TitleHasAny(post, list) == \E k \in 1..Len(list) : Occurs(list[k], post.title)

AllowPasses(post, list) == list = <<>> \/ TitleHasAny(post, list)

DenyPasses(post, list) == ~TitleHasAny(post, list)

DatePasses(post, after, before) ==
  \/ post.published.date = 0
  \/ /\ (after = 0 \/ post.published.date > after)
     /\ (before = 0 \/ post.published.date < before)

MediaCount(post) ==
  post.media.previews + post.media.videos + post.media.attachments

ClauseHolds(post, c, key) ==
  CASE key = "keywords" -> AllowPasses(post, c.keywords)
    [] key = "exclude_keywords" -> DenyPasses(post, c.exclude_keywords)
    [] key = "date_after" -> DatePasses(post, c.date_after, 0)
    [] key = "date_before" -> DatePasses(post, 0, c.date_before)
    [] key = "require_files" -> (c.require_files => MediaCount(post) > 0)
    [] key = "require_images" -> (c.require_images => post.media.previews > 0)
    [] key = "require_videos" -> (c.require_videos => post.media.videos > 0)
    [] key = "require_attachments" ->
         (c.require_attachments => post.media.attachments > 0)

PassesRule(post, c) == \A key \in c.keys : ClauseHolds(post, c, key)

GlobalPasses ==
  ~use_global \/ global_filter.keys = {} \/ PassesRule(f_post, global_filter)

SubjectPasses == artist_filter.keys = {} \/ PassesRule(f_post, artist_filter)

\* the call returned and only the subject rule, holding keys of K, was in force
SubjectOnly(K) == f_pc = "done" /\ ~use_global /\ artist_filter.keys \subseteq K

\* C18: should_download returns true iff (the global filter is disabled, or
\* the global rule is empty, or the post passes every clause of it) and (the
\* subject rule is absent or empty, or the post passes every clause of it);
\* the global rule is evaluated first, and a failed clause of it ends the
\* evaluation with false before the subject rule is looked at.
C18_FilterComposition ==
  f_pc = "done" =>
    /\ f_result = (GlobalPasses /\ SubjectPasses)
    /\ (use_global /\ global_filter.keys # {}) =>
         (f_applied # <<>> /\ f_applied[1] = "global")
    /\ ~GlobalPasses => (f_applied = <<"global">> /\ ~f_result)
    /\ (GlobalPasses /\ artist_filter.keys # {}) =>
         f_applied[Len(f_applied)] = "artist"

\* the global rule passed and a clause of the subject rule then failed
C18_Witness ==
  /\ f_pc = "done"
  /\ f_applied = <<"global", "artist">>
  /\ PassesRule(f_post, global_filter)
  /\ ~PassesRule(f_post, artist_filter)
  /\ ~f_result

\* C19: keyword matching is case-insensitive substring containment in the
\* title: a non-empty allow-list passes iff the title contains at least one
\* listed keyword, an empty allow-list never rejects, a deny-list rejects iff
\* the title contains at least one listed keyword; "Sketch WIP" with the
\* deny-list ["wip"] is rejected and with no clauses is accepted.
C19_KeywordClauses ==
  f_pc = "done" =>
    /\ \A list \in KeywordLists :
         /\ CheckKeywords(f_post, list) = TitleHasAny(f_post, list)
         /\ CheckExcludeKeywords(f_post, list) = TitleHasAny(f_post, list)
    /\ SubjectOnly({"keywords", "exclude_keywords"}) =>
         f_result = (/\ AllowPasses(f_post, artist_filter.keywords)
                     /\ DenyPasses(f_post, artist_filter.exclude_keywords))
    /\ (SubjectOnly({"exclude_keywords"}) /\ f_post.title = SketchWIP
        /\ artist_filter.exclude_keywords = << <<"w", "i", "p">> >>) =>
         ~f_result
    /\ (SubjectOnly({}) /\ f_post.title = SketchWIP) => f_result

\* "Sketch WIP" met the deny-list ["wip"] and was rejected
C19_Witness ==
  /\ SubjectOnly({"exclude_keywords"})
  /\ f_post.title = SketchWIP
  /\ artist_filter.exclude_keywords = << <<"w", "i", "p">> >>
  /\ f_applied = <<"artist">>
  /\ ~f_result

\* C20: a post with a missing or empty publish date passes every date clause;
\* otherwise, with D the date portion of its publish timestamp, the clause
\* passes iff (date-after is absent or D > date-after) and (date-before is
\* absent or D < date-before): a post dated on either bound is rejected.
C20_DateRange ==
  f_pc = "done" =>
    /\ \A after \in DateBounds \cup {0}, before \in DateBounds \cup {0} :
         CheckDateRange(f_post, after, before) =
           DatePasses(f_post, after, before)
    /\ SubjectOnly({"date_after", "date_before"}) =>
         /\ f_result = DatePasses(f_post, artist_filter.date_after,
                                  artist_filter.date_before)
         /\ f_post.published.date = 0 => f_result
         /\ (f_post.published.date # 0
             /\ f_post.published.date
                  \in {artist_filter.date_after, artist_filter.date_before})
              => ~f_result

\* a post dated exactly on the date-after bound was rejected
C20_Witness ==
  /\ SubjectOnly({"date_after"})
  /\ artist_filter.keys = {"date_after"}
  /\ f_post.published.date # 0
  /\ f_post.published.date = artist_filter.date_after
  /\ f_applied = <<"artist">>
  /\ ~f_result

\* ---- sync pass claims: isolation of failures, the watermark write
\* the post loop of the pass is over and the result is with the caller
PassReturned == pc \in {"report", "idle"} /\ posts_checked > 0

\* the pages of the listing at the first n offsets, one after the other
RECURSIVE PagesUpTo(_)
PagesUpTo(n) ==
  IF n = 0 THEN <<>> ELSE PagesUpTo(n - 1) \o Page((n - 1) * PageSize)

\* C21: when fetching or processing a post of the pass raises, the error is
\* recorded in the result's error list and every later post is still fetched,
\* filtered and, if accepted, downloaded; the pass returns a result.
C21_PerPostIsolation ==
  /\ pc = "posts" => Len(errors) + Len(filtered) + Len(downloaded) = idx - 1
  /\ PassReturned =>
       /\ \A i \in 1..Len(new_posts) :
            new_posts[i] \in Range(errors) \cup Range(filtered)
                               \cup Range(downloaded)
       /\ Len(errors) + Len(filtered) + Len(downloaded) = Len(new_posts)
       /\ posts_checked = Len(new_posts)

\* a post failed and a later post of the same pass was downloaded
C21_Witness ==
  /\ PassReturned
  /\ \E i \in 1..Len(new_posts), j \in 1..Len(new_posts) :
       /\ i < j
       /\ new_posts[i] \in Range(errors)
       /\ new_posts[j] \in Range(downloaded)

\* C29: the persisted watermark is not written while a post of the pass is
\* unprocessed; it changes only in the step after download_artist_updates has
\* returned, so an interrupted pass leaves it at its prior value.
C29_WatermarkWrittenAtEnd ==
  [][/\ last_post_date' # last_post_date => (pc = "report" /\ pc' = "idle")
     /\ pc \in {"fetch", "fetched", "posts", "report"} =>
          last_post_date = last_date]_vars

\* the watermark moved in the final step of a pass that downloaded posts
C29_Witness ==
  /\ pc = "idle"
  /\ downloaded # <<>>
  /\ last_post_date = latest_post_date
  /\ last_post_date # last_date

\* C30: when a listing-page request fails during the walk, _fetch_new_posts
\* does not raise and returns exactly the posts of the pages fetched before
\* the failure, in order; no later page is requested.
C30_FetchErrorKeepsProgress ==
  fetch_failed =>
    /\ pc \in {"fetched", "posts", "report", "idle"}
    /\ requests = [k \in 1..Len(requests) |-> (k - 1) * PageSize]
    /\ new_posts = PagesUpTo(Len(requests) - 1)

\* a page was fetched and kept, the request of the next page failed
C30_Witness ==
  /\ fetch_failed
  /\ Len(requests) >= 2
  /\ new_posts # <<>>
  /\ pc = "posts"

\* ---- post files claims
\* the first n download_file calls that did not answer True, in order
RECURSIVE FailedCalls(_)
FailedCalls(n) ==
  IF n = 0 THEN <<>>
  ELSE IF pf_answers[n] = "True" THEN FailedCalls(n - 1)
  ELSE Append(FailedCalls(n - 1), pf_calls[n])

\* C22: a file of the post whose download fails is added to the failed list
\* with its url and target path, download_post_files still returns its
\* results, and every later file of the post is still attempted.
C22_PerFileIsolation ==
  /\ pf_failed = FailedCalls(Len(pf_calls))
  /\ pf_success + Len(pf_failed) = Len(pf_calls)
  /\ pf_pc = "files" => Len(pf_calls) = pf_idx
  /\ pf_pc = "returned" =>
       /\ Len(pf_calls) = Len(files_to_download)
       /\ \A i \in 1..Len(files_to_download) :
            /\ pf_calls[i].url = files_to_download[i].url
            /\ pf_calls[i].save_path =
                 SavePath(files_to_download[i].name,
                          files_to_download[i].url, i - 1)

\* the first file failed and a later file of the post was downloaded
C22_Witness ==
  /\ pf_pc = "returned"
  /\ Len(files_to_download) >= 2
  /\ pf_failed # <<>>
  /\ pf_answers[1] = "False"
  /\ pf_failed[1] = pf_calls[1]
  /\ pf_answers[Len(pf_answers)] = "True"

\* ---- recurrence claims
\* C23: for every recurrence rule (daily, weekly on any weekday, monthly on
\* any day of month) and every instant now, _calculate_next_run returns an
\* instant strictly later than now; it never fails.
C23_ResolvesToFuture ==
  rc_pc # "call" => (rc_pc = "returned" /\ rc_next > rc_now)

\* C24: a daily rule at time of day T resolves to today at T when the time of
\* day of now is before T, and to tomorrow at T when it is at or after T
\* (rule at slot 1: from slot 2 of a day to slot 1 of the next day, from slot
\* 0 of a day to slot 1 of the same day).
C24_DailyResolution ==
  (rc_timer.type = "daily" /\ rc_pc # "call") =>
    /\ rc_pc = "returned"
    /\ SlotOf(rc_next) = rc_timer.time
    /\ DayIndex(rc_next) =
         IF SlotOf(rc_now) < rc_timer.time THEN DayIndex(rc_now)
         ELSE DayIndex(rc_now) + 1
    /\ (rc_timer.time = 1 /\ rc_now = 2) => rc_next = SlotsPerDay + 1
    /\ (rc_timer.time = 1 /\ rc_now = 0) => rc_next = 1

\* a daily rule was resolved at exactly its time of day, on the last day of
\* a year, and gave the first day of the next year
C24_Witness ==
  /\ rc_pc = "returned"
  /\ rc_timer.type = "daily"
  /\ SlotOf(rc_now) = rc_timer.time
  /\ YearOf(rc_next) = YearOf(rc_now) + 1
  /\ rc_next = rc_now + SlotsPerDay

\* ---- scheduler claims
\* the scheduler thread has dealt with the subject at sched_k in this step
SubjectStep ==
  /\ sched_pc = "subject"
  /\ sched_k <= Len(artists)
  /\ (sched_pc' # "subject" \/ sched_k' # sched_k)

\* C25: on a tick a subject with an explicit rule is passed to the
\* orchestrator iff now >= its cached next-due instant; after the pass has
\* returned its next-due instant is recomputed from the rule, strictly later
\* than the clock then, so the loop does not trigger it again before.
C25_TriggerAndRearm ==
  [][/\ (SubjectStep /\ artists[sched_k] # NoTimer) =>
          ((sched_pc' = "pass") <=>
             (/\ sched_k \in DOMAIN next_run_times'
              /\ tick_now >= next_run_times'[sched_k]))
     /\ (sched_pc = "rearm" /\ sched_pc' # "rearm") =>
          (/\ sched_pc' = "subject"
           /\ next_run_times'[sched_k] > clock)]_vars

C27_SubjectFailureIsolation ==
  [][/\ sched_pc' \in {"sleep", "except"} => evaluated' = 1..Len(artists)
     /\ (sched_pc = "except" /\ sched_pc' # "except") => sched_pc' = "tick"]_vars

\* C28: a pass of the scheduler thread and a pass of the command loop are
\* never in progress for the same subject at the same moment.
C28_OnePassPerSubject == ~(sched_pass # 0 /\ sched_pass = cli_pass)

\* C31: any two media references of one post, at different positions of the
\* extracted file list, are written to different destination paths, also
\* when they carry the same display name or no name.
C31_DisjointPaths ==
  \A i \in 1..Len(pf_calls), j \in 1..Len(pf_calls) :
    i # j => pf_calls[i].save_path # pf_calls[j].save_path

\* ---- download claims, continued
\* download_file has returned from a call that found the complete resource at
\* the destination
RepeatCallDone ==
  /\ dpc = "done"
  /\ max_retries >= 1
  /\ remote # <<>>
  /\ given_bytes = remote

\* C38: a second download_file call for a complete file returns success and
\* leaves the file byte-identical, also when the HEAD probe fails or reports
\* no content-length and the server answers the Range request that starts at
\* the end of the resource with an error status.
C38_RepeatDownload ==
  (RepeatCallDone /\ (gets = <<>> \/ status_code = 416)) =>
    (result = "True" /\ file_bytes = given_bytes)

\* ---- retry wrapper claims, continued
\* C40: a call of a retry_on_error-wrapped function that returns normally
\* returns the value of an invocation that succeeded, for every max_retries
\* >= 0; it never returns without a value and without a successful
\* invocation.
C40_NeverReturnsEmpty ==
  r_pc = "returned" =>
    /\ r_result = "value"
    /\ r_calls = r_fails + 1

\* ---- recurrence claims, continued
\* the instant t is an occurrence of the rule
Matches(timer, t) ==
  /\ SlotOf(t) = timer.time
  /\ timer.type = "weekly" => Weekday(t) = timer.day
  /\ timer.type = "monthly" => DayOf(t) = timer.day

\* C35: for every rule and every now, _calculate_next_run returns the
\* earliest instant strictly after now that matches the rule; a weekly rule
\* evaluated on its own weekday before its time of day resolves to the same
\* day.
C35_EarliestOccurrence ==
  rc_pc # "call" =>
    /\ rc_pc = "returned"
    /\ rc_next > rc_now
    /\ Matches(rc_timer, rc_next)
    /\ \A u \in (rc_now + 1)..(rc_next - 1) : ~Matches(rc_timer, u)
    /\ (/\ rc_timer.type = "weekly"
        /\ Weekday(rc_now) = rc_timer.day
        /\ SlotOf(rc_now) < rc_timer.time) => DayIndex(rc_next) = DayIndex(rc_now)

\* ---- sync pass claims, continued
\* C32: for a subject with a watermark, whenever a pass moves the persisted
\* watermark from W to W', every post of the listing published after W and
\* not after W' was downloaded or rejected by the filter in that pass; none
\* is skipped because a later page failed to load or because its own detail
\* fetch failed.
C32_NoPostLost ==
  [][(last_post_date' # last_post_date /\ Truthy(last_date)) =>
       \A p \in 1..Len(listing) :
         (/\ last_post_date < Published(p)
          /\ Published(p) <= last_post_date') =>
           p \in Range(downloaded) \cup Range(filtered)]_vars

\* a post of the pass is downloaded in this step
PostDownloadedStep == pc = "posts" /\ Len(downloaded') = Len(downloaded) + 1

\* C36: at the end of every sync pass posts_checked is the number of new
\* posts fetched and equals posts_downloaded + posts rejected by the filter
\* + recorded errors; the result of every post has success + number of
\* failed entries = total; files_downloaded and files_failed start at 0 and
\* grow by exactly those per-post counts with each downloaded post.
C36_ResultAccounting ==
  [][/\ pc' \in {"report", "idle"} =>
          /\ posts_checked' = Len(new_posts')
          /\ posts_checked' =
               posts_downloaded' + Len(filtered') + Len(errors')
          /\ posts_downloaded' = Len(downloaded')
     /\ download_result'.success + download_result'.failed
          = download_result'.total
     /\ IF PostDownloadedStep
        THEN /\ files_downloaded' = files_downloaded + download_result'.success
             /\ files_failed' = files_failed + download_result'.failed
        ELSE IF pc' = "fetch" /\ pc = "idle"
        THEN files_downloaded' = 0 /\ files_failed' = 0
        ELSE UNCHANGED <<files_downloaded, files_failed>>]_vars

\* a pass is over in which posts were downloaded, with files that succeeded
\* and files that failed, a post was filtered and a post failed
C36_Witness ==
  /\ pc = "idle"
  /\ posts_downloaded >= 2
  /\ files_downloaded >= 1 /\ files_failed >= 1
  /\ filtered # <<>> /\ errors # <<>>
  /\ posts_checked = 4

\* ---- scheduler claims, continued
\* C37: after a user has edited a subject's recurrence rule, the next-due
\* map holds no entry computed from a rule the subject no longer has: every
\* cached instant, and so every instant the loop triggers the subject at, is
\* an occurrence of the subject's current rule.
C37_CachedDueFollowsRule ==
  \A k \in DOMAIN next_run_times :
    /\ artists[k] # NoTimer
    /\ Matches(artists[k], next_run_times[k])

\* ---- concurrent passes claims
\* C33: in every interleaving of passes of the scheduler thread and of the
\* command loop for one subject, each on its own copy of the subject, the
\* watermark stored by ArtistManager never decreases from one write to the
\* next.
C33_WatermarkMonotone == [][stored_date' >= stored_date]_vars

\* ---- scheduler threads claims
\* C34: after any sequence of start and stop calls at most one thread is
\* executing _run_loop; a stop followed by a start, also while the old
\* thread is still in the loop body after the join timeout, does not leave
\* two live loops.
C34_OneLoopAtMost == Cardinality(LiveLoops) <= 1

\* ---- listing walk claims
\* the least number of pages that hold n posts
PagesFor(n) == (n + PageSize - 1) \div PageSize

\* the walk of a subject with a watermark has returned
WatermarkWalkDone == pc = "fetched" /\ Truthy(last_date)

\* C39: for a subject with a watermark and a listing of N posts,
\* _fetch_new_posts requests the offsets 0, PageSize, 2 * PageSize, ... in
\* this order, none twice, makes at most ceil(N / PageSize) + 1 requests and
\* eventually returns: at the first empty page, at the first post not newer
\* than the watermark, or at the first failing request.
C39_WalkTerminates ==
  /\ [](Truthy(last_date) =>
          /\ requests = [k \in 1..Len(requests) |-> (k - 1) * PageSize]
          /\ Len(requests) <= PagesFor(Len(listing)) + 1)
  /\ [](WatermarkWalkDone =>
          \/ fetch_failed
          \/ Page(requests[Len(requests)]) = <<>>
          \/ StopPositions(Page(requests[Len(requests)]), last_date) # {})
  /\ (pc = "fetch") ~> (pc = "fetched")

\* a walk that went through every page of a listing whose posts are all
\* newer than the watermark, and ended at the empty page after the last one
C39_Witness ==
  /\ WatermarkWalkDone /\ ~fetch_failed
  /\ Len(listing) = PageSize
  /\ new_posts = Page(0)
  /\ Len(requests) = PagesFor(Len(listing)) + 1

====
